---- MODULE Spec2Model ----
(***************************************************************************)
(* A model of the OurPR backend (FastAPI + Supabase).                      *)
(*                                                                         *)
(*  - the training-plan generation handler generate_training_plan          *)
(*    (backend/app/api/training_plans.py): date calculation, per-day       *)
(*    repair of the model's output, plan assembly and validation;          *)
(*  - the achievement scorer check_and_award_achievements                  *)
(*    (backend/app/services/achievement_service.py) together with the PR   *)
(*    handlers that schedule it (backend/app/api/user_prs.py).             *)
(*                                                                         *)
(* Calendar dates are day ordinals counted from 2024-01-01 (a Monday);     *)
(* an ISO "YYYY-MM-DD" string is the integer YYYYMMDD, so that formatting  *)
(* and parsing are real conversions.  A JSON object (Python dict) is a     *)
(* function whose DOMAIN is the set of keys that are present.              *)
(***************************************************************************)
EXTENDS Integers, Sequences, FiniteSets, TLC

\* ------------------------------------------------------------------ bounds
\* ordinal of the first "today" that is tried (2024-12-16, a Monday)
FirstToday == 350
\* race dates tried are today-1 .. today+MaxOffset, plus FarOffsets
MaxOffset == 16
\* the model returns at most this many weeks
MaxAiWeeks == 2
\* at most this many PR rows are ever created
MaxPrs == 2
\* at most this many PR writes (each schedules one scorer run)
MaxTasks == 2
\* rows ever inserted into user_generated_plans
MaxPlanRows == 3
\* at most this many scorer runs fail
MaxFailures == 1
\* at most this many requests that take several database calls
MaxCalls == 2
\* at most this many OAuth state tokens are issued
MaxOAuthStates == 2

\* ----------------------------------------------------- calendar (datetime)
IsLeap(y) == (y % 4 = 0) /\ ((y % 100 # 0) \/ (y % 400 = 0))

MonthLen(y, m) ==
    IF m = 2 THEN (IF IsLeap(y) THEN 29 ELSE 28)
    ELSE IF m \in {4, 6, 9, 11} THEN 30 ELSE 31

YearLen(y) == IF IsLeap(y) THEN 366 ELSE 365

RECURSIVE IsoInYear(_, _, _)
IsoInYear(n, y, m) ==
    IF n < MonthLen(y, m) THEN y * 10000 + m * 100 + (n + 1)
    ELSE IsoInYear(n - MonthLen(y, m), y, m + 1)

RECURSIVE IsoFromYear(_, _)
IsoFromYear(n, y) ==
    IF n < YearLen(y) THEN IsoInYear(n, y, 1)
    ELSE IsoFromYear(n - YearLen(y), y + 1)

\* date.isoformat(): ordinal -> YYYYMMDD
isoformat(n) == IsoFromYear(n, 2024)

IsoYear(s) == s \div 10000
IsoMonth(s) == (s \div 100) % 100
IsoDay(s) == s % 100

\* does date.fromisoformat(s) succeed (otherwise it raises ValueError)
IsIsoDate(s) ==
    /\ IsoYear(s) >= 2024
    /\ IsoMonth(s) \in 1..12
    /\ IsoDay(s) >= 1
    /\ IsoDay(s) <= MonthLen(IsoYear(s), IsoMonth(s))

RECURSIVE DaysBeforeYear(_)
DaysBeforeYear(y) ==
    IF y <= 2024 THEN 0 ELSE DaysBeforeYear(y - 1) + YearLen(y - 1)

RECURSIVE DaysBeforeMonth(_, _)
DaysBeforeMonth(y, m) ==
    IF m <= 1 THEN 0 ELSE DaysBeforeMonth(y, m - 1) + MonthLen(y, m - 1)

\* date.fromisoformat(): YYYYMMDD -> ordinal
fromisoformat(s) ==
    DaysBeforeYear(IsoYear(s)) + DaysBeforeMonth(IsoYear(s), IsoMonth(s))
        + (IsoDay(s) - 1)

\* date.weekday(): Monday = 0 .. Sunday = 6 (ordinal 0 is a Monday)
weekday(d) == d % 7

\* ------------------------------------------------------ date calculator
MAX_PLAN_WEEKS == 20

\* get_monday_of_week with the offset taken as days instead of weeks: a slip
\* that C3 must rule out
get_monday_of_week_days(target_date, weeks_offset) ==
    LET monday_of_target_week == target_date - weekday(target_date)
    IN  monday_of_target_week - weeks_offset

get_monday_of_week(target_date, weeks_offset) ==
    LET monday_of_target_week == target_date - weekday(target_date)
    IN  monday_of_target_week - 7 * weeks_offset

day_before_race_of(race_date_obj) == race_date_obj - 1

sunday_before_race_of(race_date_obj) ==
    LET day_before_race == day_before_race_of(race_date_obj)
    IN  day_before_race - (weekday(day_before_race) + 1)

monday_this_week_of(today_obj) == today_obj - weekday(today_obj)

\* Python's // is floor division, as is TLA+'s \div
weeks_until_of(race_date_obj, today_obj) ==
    ((sunday_before_race_of(race_date_obj) - monday_this_week_of(today_obj))
        \div 7) + 1

\* ------------------------------------------------- Python dict / list helpers
\* None (a JSON null, or an optional field that was never set)
NONE == "<None>"

\* dict.get(k) with None as the default
Get(d, k) == IF k \in DOMAIN d THEN d[k] ELSE NONE

\* d[k] = v
SetKey(d, k, v) == [x \in (DOMAIN d) \cup {k} |-> IF x = k THEN v ELSE d[x]]

\* Python truthiness of an optional string: None and "" are falsy
Falsy(v) == v = NONE \/ v = ""

\* list.sort(key=...) / sorted(..., key=...): a stable insertion sort of seq
\* by the integer keys given in the parallel sequence keys; an element goes
\* after every element whose key is not greater than its own
RECURSIVE InsertByKey(_, _)
InsertByKey(sorted_pairs, p) ==
    LET n == Len(sorted_pairs)
    IN  IF n = 0 THEN <<p>>
        ELSE IF sorted_pairs[n][1] <= p[1]
             THEN Append(sorted_pairs, p)
             ELSE Append(InsertByKey(SubSeq(sorted_pairs, 1, n - 1), p),
                         sorted_pairs[n])

RECURSIVE SortPairs(_)
SortPairs(pairs) ==
    LET n == Len(pairs)
    IN  IF n = 0 THEN <<>>
        ELSE InsertByKey(SortPairs(SubSeq(pairs, 1, n - 1)), pairs[n])

StableSort(seq, keys) ==
    LET sorted_pairs == SortPairs([i \in 1..Len(seq) |-> <<keys[i], seq[i]>>])
    IN  [i \in 1..Len(seq) |-> sorted_pairs[i][2]]

\* ------------------------------------------------ per-day repair (step 3)
day_order == <<"Monday", "Tuesday", "Wednesday", "Thursday", "Friday",
               "Saturday", "Sunday">>

DayNames == {day_order[i] : i \in 1..Len(day_order)}

allowed_workout_types ==
    {"Easy Run", "Tempo Run", "Intervals", "Speed Work", "Long Run", "Rest",
     "Cross-Training", "Strength", "Race Pace", "Warm-up", "Cool-down", "Other"}

\* day_order.index(name): 0-based position (ValueError if name is not a day)
DayIndex(name) == CHOOSE i \in 0..6 : day_order[i + 1] = name

\* CorrectDayOfWeek overwriting whatever name the day has: a slip that C13
\* must rule out
CorrectDayOfWeek_always(day_object, index) ==
    SetKey(day_object, "day_of_week", day_order[index + 1])

\* 1. correct day_of_week from the position of the day in the list
CorrectDayOfWeek(day_object, index) ==
    LET current_day_name == Get(day_object, "day_of_week")
        correct_day_name == day_order[index + 1]
    IN  IF Falsy(current_day_name) \/ current_day_name \notin DayNames
        THEN SetKey(day_object, "day_of_week", correct_day_name)
        ELSE day_object

\* 2. correct workout_type
CorrectWorkoutType(day_object) ==
    LET current_workout_type == Get(day_object, "workout_type")
    IN  IF Falsy(current_workout_type)
           \/ current_workout_type \notin allowed_workout_types
        THEN SetKey(day_object, "workout_type", "Other")
        ELSE day_object

\* 3. default description, from the (possibly corrected) workout type
AddDefaultDescription(day_object) ==
    LET current_workout_type == Get(day_object, "workout_type")
        current_description == Get(day_object, "description")
        default_desc == IF current_workout_type # "Other"
                        THEN current_workout_type ELSE "Workout"
    IN  IF Falsy(current_description)
        THEN SetKey(day_object, "description", default_desc)
        ELSE day_object

\* RepairDay with the description defaulted before the workout type is
\* corrected: a slip that C14 must rule out
RepairDay_description_first(day_object, index) ==
    CorrectWorkoutType(AddDefaultDescription(CorrectDayOfWeek(day_object, index)))

RepairDay(day_object, index) ==
    AddDefaultDescription(CorrectWorkoutType(CorrectDayOfWeek(day_object, index)))

\* a week whose day count is not 7 is skipped (left as the model returned it)
RepairWeek(week_data) ==
    LET days_list == week_data.days
    IN  IF Len(days_list) # 7 THEN week_data
        ELSE [week_data EXCEPT
                 !.days = [i \in 1..Len(days_list) |-> RepairDay(days_list[i], i - 1)]]

RepairWeeks(weeks) == [w \in 1..Len(weeks) |-> RepairWeek(weeks[w])]

\* -------------------------------------------- plan assembler and validation
\* an HTTP response: status 200 carries the plan, anything else is an
\* HTTPException(status_code, detail); week is the week the detail names
NoPlan == [total_weeks |-> 0, weeks |-> <<>>]

HttpError(status_code, detail, week) ==
    [status_code |-> status_code, detail |-> detail, week |-> week, body |-> NoPlan]

HttpOk(plan) ==
    [status_code |-> 200, detail |-> "", week |-> 0, body |-> plan]

NoResponse == [status_code |-> 0, detail |-> "", week |-> 0, body |-> NoPlan]

\* ai_weeks.sort(key=lambda w: w.get("week_number", 0))
WeekSortKey(w) == IF "week_number" \in DOMAIN w THEN w.week_number ELSE 0

SortWeeks(ai_weeks) ==
    StableSort(ai_weeks, [i \in 1..Len(ai_weeks) |-> WeekSortKey(ai_weeks[i])])

\* sorted(ai_days, key=lambda d: day_order.index(d.get("day_of_week", "")))
SortDays(ai_days) ==
    StableSort(ai_days, [i \in 1..Len(ai_days) |-> DayIndex(ai_days[i].day_of_week)])

\* {"date": ..., "status": "pending", **ai_day}: the keys of ai_day win
DayData(ai_day, current_date) ==
    ai_day @@ [date |-> isoformat(current_date), status |-> "pending"]

RequiredDayKeys == {"day_of_week", "workout_type", "description"}

\* WeekFailure naming the missing week by its 0-based index: a slip that C10
\* must rule out
WeekFailure_zero_based(ai_weeks, week_index) ==
    IF week_index >= Len(ai_weeks)
    THEN HttpError(500, "AI response missing data for week", week_index)
    ELSE LET ai_days == ai_weeks[week_index + 1].days
         IN  IF Len(ai_days) # 7
             THEN HttpError(500, "AI returned wrong number of days for week",
                            week_index + 1)
             ELSE NoResponse

\* the HTTPException raised while week week_index (0-based) is built, if any
WeekFailure(ai_weeks, week_index) ==
    IF week_index >= Len(ai_weeks)
    THEN HttpError(500, "AI response missing data for week", week_index + 1)
    ELSE LET ai_days == ai_weeks[week_index + 1].days
         IN  IF Len(ai_days) # 7
             THEN HttpError(500, "AI returned wrong number of days for week",
                            week_index + 1)
             ELSE IF \E i \in 1..7 : Get(ai_days[i], "day_of_week") \notin DayNames
             THEN HttpError(500, "Error generating detailed plan", 0)
             ELSE IF \E i \in 1..7 : ~(RequiredDayKeys \subseteq DOMAIN ai_days[i])
             THEN HttpError(500, "AI response missing required fields for day",
                            week_index + 1)
             ELSE NoResponse

WeekData(ai_weeks, week_index, plan_start) ==
    LET ai_week == ai_weeks[week_index + 1]
        week_start_date == plan_start + 7 * week_index
        week_end_date == week_start_date + 6
        ai_days_sorted == SortDays(ai_week.days)
    IN  [week_number |-> week_index + 1,
         start_date |-> isoformat(week_start_date),
         end_date |-> isoformat(week_end_date),
         days |-> [i \in 1..7 |-> DayData(ai_days_sorted[i], week_start_date + (i - 1))],
         weekly_focus |-> Get(ai_week, "weekly_focus"),
         estimated_weekly_mileage |-> Get(ai_week, "estimated_weekly_mileage")]

StatusValues == {"pending", "completed", "skipped"}

\* DailyWorkout validation (pydantic): Literal fields and required strings
ValidDailyWorkout(d) ==
    /\ d.day_of_week \in DayNames
    /\ d.workout_type \in allowed_workout_types
    /\ d.description # NONE
    /\ d.status \in StatusValues

\* what DailyWorkout keeps of a dict: its declared fields, the rest dropped
ParseDailyWorkout(d) ==
    [date |-> d.date,
     day_of_week |-> d.day_of_week,
     workout_type |-> d.workout_type,
     description |-> d.description,
     distance |-> Get(d, "distance"),
     duration |-> Get(d, "duration"),
     intensity |-> Get(d, "intensity"),
     notes |-> Get(d, "notes"),
     status |-> d.status,
     google_event_id |-> Get(d, "google_event_id")]

ParseDetailedWeek(w) ==
    [w EXCEPT !.days = [i \in 1..Len(w.days) |-> ParseDailyWorkout(w.days[i])]]

\* the loop over range(weeks_until), DetailedTrainingPlan.parse_obj and the
\* except clauses that turn every failure into an HTTPException
AssemblePlan(ai_parsed_data, race, weeks, plan_start) ==
    LET ai_weeks == SortWeeks(RepairWeeks(ai_parsed_data.weeks))
        failing == {k \in 0..(weeks - 1) : WeekFailure(ai_weeks, k) # NoResponse}
        first_failing == CHOOSE k \in failing : \A j \in failing : k <= j
        detailed_weeks_data == [k \in 1..weeks |-> WeekData(ai_weeks, k - 1, plan_start)]
    IN  IF failing # {} THEN WeekFailure(ai_weeks, first_failing)
        ELSE IF \E k \in 1..weeks : \E i \in 1..7 :
                    ~ValidDailyWorkout(detailed_weeks_data[k].days[i])
        THEN HttpError(500, "Generated plan structure is incompatible.", 0)
        ELSE HttpOk([race_name |-> race.name,
                     race_distance |-> race.distance,
                     race_date |-> race.date,
                     plan_start_date |-> isoformat(plan_start),
                     total_weeks |-> weeks,
                     weeks |-> [k \in 1..weeks |-> ParseDetailedWeek(detailed_weeks_data[k])],
                     plan_version |-> "v2.0-daily"])

\* JSON extraction and json.loads
ProcessModelResponse(text, race, weeks, plan_start) ==
    IF text.kind = "prose"
    THEN HttpError(500, "AI service returned invalid format. Failed to extract valid JSON block from AI response.", 0)
    ELSE IF text.kind = "undecodable"
    THEN HttpError(500, "AI service returned invalid format.", 0)
    ELSE AssemblePlan(text.data, race, weeks, plan_start)

\* ------------------------------------- request body, PR lookup, plan_data
\* an Optional value: <<>> is None, <<v>> is the value v
None == <<>>

Some(v) == <<v>>

\* PlanGenerationRequest as a dict: a field that is None is left out
NoPreferences == <<>>

\* "x if x else None" on an Optional[str] field: None and "" give None
TruthyStr(request, k) == k \in DOMAIN request /\ request[k] # ""

\* "x if x else None" on an Optional[int] field: None and 0 give None
TruthyInt(request, k) == k \in DOMAIN request /\ request[k] # 0

\* the parts of "H:MM:SS" (or "M:SS" under one hour); <<>> is "N/A"
format_time_from_seconds(total_seconds) ==
    LET hours == total_seconds \div 3600
        minutes == (total_seconds % 3600) \div 60
        seconds == total_seconds % 60
    IN  IF total_seconds < 0 THEN <<>>
        ELSE IF hours > 0 THEN <<hours, minutes, seconds>>
        ELSE <<minutes, seconds>>

\* step 2 and the "pr_used" entry: the user's fastest PR at the race
\* distance; None when user_pr_str stays "Not available" or becomes
\* "Error fetching"
PrUsed(rows, user_id, race) ==
    LET matching == {r \in rows : r.user_id = user_id /\ r.distance = race.distance}
        best == CHOOSE r \in matching :
                    \A q \in matching : r.time_in_seconds <= q.time_in_seconds
    IN  IF matching = {} THEN None
        ELSE Some([distance |-> race.distance,
                   time |-> format_time_from_seconds(best.time_in_seconds)])

\* personalization_details: the six entries, those that are None filtered
\* out, and None instead of an empty dict
PersonalizationDetails(request, pr) ==
    LET keys == {k \in {"pr_used"} : pr # None}
                \cup {k \in {"goal_time_set"} : TruthyStr(request, "goal_time")}
                \cup {k \in {"current_mileage_input"} :
                          TruthyInt(request, "current_weekly_mileage")}
                \cup {k \in {"peak_mileage_input"} :
                          TruthyInt(request, "peak_weekly_mileage")}
                \cup {k \in {"running_days_input"} :
                          TruthyInt(request, "preferred_running_days")}
                \cup {k \in {"long_run_day_input"} :
                          TruthyStr(request, "preferred_long_run_day")}
        details == [k \in keys |->
                       CASE k = "pr_used" -> pr[1]
                         [] k = "goal_time_set" -> request.goal_time
                         [] k = "current_mileage_input" -> request.current_weekly_mileage
                         [] k = "peak_mileage_input" -> request.peak_weekly_mileage
                         [] k = "running_days_input" -> request.preferred_running_days
                         [] k = "long_run_day_input" -> request.preferred_long_run_day]
    IN  IF keys = {} THEN None ELSE Some(details)

\* the fields of plan_data that come from the caller and the request body
PlanData(plan, user_id, request, pr) ==
    plan @@ [user_id |-> user_id,
             goal_time |-> IF TruthyStr(request, "goal_time")
                           THEN request.goal_time ELSE "Not specified",
             overall_notes |-> None,
             personalization_details |-> PersonalizationDetails(request, pr),
             plan_id |-> "uuid4()",
             generated_at |-> "now()"]

\* the response of the generation request: the assembled plan with the
\* fields of plan_data, or the HTTPException
GeneratedResponse(text, race, weeks, plan_start, user_id, request, pr) ==
    LET assembled == ProcessModelResponse(text, race, weeks, plan_start)
    IN  IF assembled.status_code # 200 THEN assembled
        ELSE HttpOk(PlanData(assembled.body, user_id, request, pr))

\* --------------------------------------------- what the model may return
\* a well-formed day as the prompt asks for it
BaseDay(i) ==
    [day_of_week |-> day_order[i],
     workout_type |-> IF i \in {1, 5} THEN "Rest"
                      ELSE IF i = 6 THEN "Long Run" ELSE "Easy Run",
     description |-> "as planned"]

CanonicalDays == [i \in 1..7 |-> BaseDay(i)]

\* the same seven days, Sunday first
ReversedDays == [i \in 1..7 |-> BaseDay(8 - i)]

\* repairable: index 0 lacks day_of_week, index 2 has a workout type outside
\* the enum and an empty description, index 3 is "Funday", index 5 has
\* neither workout_type nor description
RepairableDays ==
    [i \in 1..7 |->
        IF i = 1 THEN [workout_type |-> "Rest", description |-> "as planned"]
        ELSE IF i = 3 THEN [BaseDay(i) EXCEPT !.workout_type = "5 mile tempo",
                                              !.description = ""]
        ELSE IF i = 4 THEN [BaseDay(i) EXCEPT !.day_of_week = "Funday"]
        ELSE IF i = 6 THEN [day_of_week |-> "Saturday"]
        ELSE BaseDay(i)]

\* Monday twice, Tuesday never
DuplicateDays ==
    [i \in 1..7 |-> IF i = 2 THEN [BaseDay(i) EXCEPT !.day_of_week = "Monday"]
                    ELSE BaseDay(i)]

\* only six days
ShortDays == [i \in 1..6 |-> BaseDay(i)]

\* index 4 carries its own "date", index 5 its own "status", index 6 its own
\* "google_event_id"
OverridingDays ==
    [i \in 1..7 |->
        IF i = 5 THEN BaseDay(i) @@ [date |-> 20200101]
        ELSE IF i = 6 THEN BaseDay(i) @@ [status |-> "completed"]
        ELSE IF i = 7 THEN BaseDay(i) @@ [google_event_id |-> "evt-from-model"]
        ELSE BaseDay(i)]

\* index 5 carries a status outside the enum
BogusStatusDays ==
    [i \in 1..7 |-> IF i = 6 THEN BaseDay(i) @@ [status |-> "done"] ELSE BaseDay(i)]

DayLists ==
    {CanonicalDays, ReversedDays, RepairableDays, DuplicateDays, ShortDays,
     OverridingDays, BogusStatusDays}

\* how the model numbers its weeks: not at all, 1..n, or n..1
WeekNumbering == {"absent", "ascending", "descending"}

AiWeek(numbering, n, i, days) ==
    IF numbering = "absent" THEN [days |-> days]
    ELSE [week_number |-> IF numbering = "ascending" THEN i ELSE n + 1 - i,
          days |-> days]

AiParsedData(numbering, day_lists) ==
    [weeks |-> [i \in 1..Len(day_lists) |->
                   AiWeek(numbering, Len(day_lists), i, day_lists[i])]]

DayListSeqs == UNION {[1..n -> DayLists] : n \in 0..MaxAiWeeks}

\* response.text: prose without JSON, an object that does not decode, or a
\* (fenced or bare) JSON object that decodes to data
RawTexts ==
    {[kind |-> "prose"], [kind |-> "undecodable"]}
    \cup {[kind |-> "json", data |-> AiParsedData(nb, dl)] :
              nb \in WeekNumbering, dl \in DayListSeqs}

\* ------------------------------------------------------------------ state
VARIABLES
    today,                \* date.today()
    races,                \* table races: id -> row
    gemini_api_key,       \* is GEMINI_API_KEY configured
    req_race_id,          \* path parameter of the generation request
    gen_pc,               \* "start", "awaiting_model", "done"
    weeks_until,          \* as computed by the request (0 before)
    plan_start_date_obj,  \* as computed by the request (0 before)
    raw_text,             \* what the model returned
    response,             \* the HTTP response of the generation request
    current_user,         \* the authenticated caller of the generation request
    request_data,         \* the request body (PlanGenerationRequest)
    pr_used,              \* the PR summary of step 2, None if there is none
    repaired_weeks        \* ai_parsed_data["weeks"] after the pre-processing

gen_vars == <<today, races, gemini_api_key, req_race_id, gen_pc, weeks_until,
              plan_start_date_obj, raw_text, response, current_user,
              request_data, pr_used, repaired_weeks>>

VARIABLES
    achievements,         \* table achievements: set of rows (id, code)
    user_prs,             \* table user_prs: set of rows
    user_achievements,    \* table user_achievements: (user, achievement) -> number of rows
    next_pr_id,           \* the id the database gives the next PR row
    tasks                 \* scheduled background scorer runs, in scheduling order

scorer_vars == <<achievements, user_prs, user_achievements, next_pr_id, tasks>>

VARIABLES
    user_generated_plans, \* table user_generated_plans: set of rows
    next_plan_row_id,     \* the id the database gives the next plan row
    plan_request,         \* the last request to a saved-plan endpoint
    plan_response         \* and its HTTP response

store_vars == <<user_generated_plans, next_plan_row_id, plan_request, plan_response>>

VARIABLES
    calls,                \* requests that take several database calls, in
                          \* arrival order: in progress, or answered
    calendar_events,      \* events ever created in the user's Google Calendar
    user_google_auth,     \* table user_google_auth: set of rows
    oauth_states,         \* table oauth_states: set of rows
    next_oauth_state,     \* numbers the state tokens google_login issues
    user_goals,           \* table user_goals: set of rows
    next_goal_row_id      \* the id the database gives the next goal row

integration_vars == <<calls, calendar_events, user_google_auth, oauth_states,
                      next_oauth_state, user_goals, next_goal_row_id>>

vars == <<gen_vars, scorer_vars, store_vars, integration_vars>>

\* no request in progress, no calendar event, no Google connection, no
\* pending OAuth flow and no goal
IntegrationIdle ==
    /\ calls = <<>>
    /\ calendar_events = <<>>
    /\ user_google_auth = {}
    /\ oauth_states = {}
    /\ next_oauth_state = 1
    /\ user_goals = {}
    /\ next_goal_row_id = 1

Todays == FirstToday..(FirstToday + 6)

\* offsets of the race date from today, in days
FarOffsets == {70, 139, 140, 147, 148, 154}
Offsets == ((0 - 1)..MaxOffset) \cup FarOffsets

\* "2025-02-30"
InvalidRaceDates == {20250230}

RaceIds == {"r1", "r2"}

RaceRow(race_date) == [name |-> "City Marathon", distance |-> "Marathon", date |-> race_date]

NoText == [kind |-> "none"]

InitGen ==
    /\ today \in Todays
    /\ \E d \in {isoformat(today + o) : o \in Offsets} \cup InvalidRaceDates \cup {0} :
           races = [id \in {"r1"} |-> RaceRow(d)]
    /\ gemini_api_key \in BOOLEAN
    /\ req_race_id \in RaceIds
    /\ gen_pc = "start"
    /\ weeks_until = 0
    /\ plan_start_date_obj = 0
    /\ raw_text = NoText
    /\ response = NoResponse
    /\ current_user = "u1"
    /\ request_data = NoPreferences
    /\ pr_used = None
    /\ repaired_weeks = <<>>

\* no generation request in flight
GenIdle ==
    /\ today = FirstToday
    /\ races = [id \in {"r1"} |-> RaceRow(isoformat(FirstToday + 70))]
    /\ gemini_api_key = TRUE
    /\ req_race_id = "r1"
    /\ gen_pc = "start"
    /\ weeks_until = 0
    /\ plan_start_date_obj = 0
    /\ raw_text = NoText
    /\ response = NoResponse
    /\ current_user = "u1"
    /\ request_data = NoPreferences
    /\ pr_used = None
    /\ repaired_weeks = <<>>

\* ------------------------------------------- achievements and PR tables
Users == {"u1", "u2"}

\* achievement codes, in the order of their ids
AchievementCodes ==
    <<"FIRST_PR_LOGGED", "OFFICIAL_RACER", "5K_FINISHER", "10K_FINISHER",
      "HALF_MARATHONER", "MARATHONER", "ULTRA_RUNNER", "SPEEDY_5K", "SUB_2_HALF",
      "BQ_CONTENDER", "WELL_ROUNDED", "PERSONAL_BEST">>

AchievementIds == 1..Len(AchievementCodes)

\* the catalog rows (id, code) for a set of codes
Catalog(codes) ==
    {[id |-> i, code |-> AchievementCodes[i]] : i \in {j \in AchievementIds : AchievementCodes[j] \in codes}}

AllCodes == {AchievementCodes[i] : i \in AchievementIds}

\* what a PR create request may carry
PrInputs ==
    {[distance |-> "5K", time_in_seconds |-> 1400, is_official |-> TRUE],
     [distance |-> "5K", time_in_seconds |-> 1600, is_official |-> FALSE],
     [distance |-> "Marathon", time_in_seconds |-> 12000, is_official |-> TRUE]}

\* what a PR update request may carry (exclude_unset: only the fields set)
PrUpdates ==
    {[time_in_seconds |-> 1400], [is_official |-> TRUE]}

InitScorer ==
    /\ achievements \in {Catalog(AllCodes), Catalog(AllCodes \ {"FIRST_PR_LOGGED"})}
    /\ user_prs = {}
    /\ user_achievements = [p \in Users \X AchievementIds |-> 0]
    /\ next_pr_id = 1
    /\ tasks = <<>>

ScorerIdle ==
    /\ achievements = Catalog(AllCodes)
    /\ user_prs = {}
    /\ user_achievements = [p \in Users \X AchievementIds |-> 0]
    /\ next_pr_id = 1
    /\ tasks = <<>>

\* ------------------------------------------------ table user_generated_plans
PlanRow(id, user_id, race_id, generated_plan) ==
    [id |-> id, user_id |-> user_id, race_id |-> race_id,
     generated_plan |-> generated_plan]

\* .eq("user_id", user_id).eq("race_id", race_id)
PlanRows(table, user_id, race_id) ==
    {row \in table : row.user_id = user_id /\ row.race_id = race_id}

\* .upsert(insert_data) without the conflict target, a plain insert: a slip
\* that C16 must rule out
Upsert_insert_only(table, id, user_id, race_id, generated_plan) ==
    table \cup {PlanRow(id, user_id, race_id, generated_plan)}

\* .upsert(insert_data, on_conflict="user_id, race_id"): the row of the pair
\* gets the new document and keeps its id, or a new row is inserted
Upsert(table, id, user_id, race_id, generated_plan) ==
    LET matching == PlanRows(table, user_id, race_id)
    IN  IF matching = {}
        THEN table \cup {PlanRow(id, user_id, race_id, generated_plan)}
        ELSE (table \ matching)
             \cup {[row EXCEPT !.generated_plan = generated_plan] : row \in matching}

\* .update({"generated_plan": ...}).eq("user_id", ...).eq("race_id", ...)
UpdateByPair(table, user_id, race_id, generated_plan) ==
    {IF row.user_id = user_id /\ row.race_id = race_id
     THEN [row EXCEPT !.generated_plan = generated_plan] ELSE row : row \in table}

\* .update(...) without the .eq("id", ...) filter: a slip that C20 must
\* rule out
UpdateById_every_row(table, id, generated_plan) ==
    {[row EXCEPT !.generated_plan = generated_plan] : row \in table}

\* .update({"generated_plan": ...}).eq("id", plan_record_id)
UpdateById(table, id, generated_plan) ==
    {IF row.id = id THEN [row EXCEPT !.generated_plan = generated_plan] ELSE row :
        row \in table}

\* .maybe_single().execute() on the selected rows. With one row the response
\* carries it. With no row the handlers of training_plans.py read
\* response.data and expect None there, while user_goal.py guards against
\* execute() returning None (reading .data of that raises): both outcomes
\* are possible. More than one row is an error of the client (raises).
MaybeSingle(rows) ==
    IF rows = {}
    THEN {[raises |-> FALSE, data |-> None], [raises |-> TRUE, data |-> None]}
    ELSE IF Cardinality(rows) > 1
    THEN {[raises |-> TRUE, data |-> None]}
    ELSE {[raises |-> FALSE, data |-> Some(row)] : row \in rows}

\* ------------------------------------- DetailedTrainingPlan as a document
DetailedPlanRequired ==
    {"user_id", "race_name", "race_distance", "race_date", "plan_start_date",
     "total_weeks", "weeks"}

DetailedWeekRequired == {"week_number", "start_date", "end_date", "days"}

DailyWorkoutRequired == {"date", "day_of_week", "workout_type", "description"}

\* a day of a document with the default of the status field filled in
WithDefaultStatus(d) == d @@ [status |-> "pending"]

ValidDetailedWeek(w) ==
    /\ DetailedWeekRequired \subseteq DOMAIN w
    /\ \A i \in 1..Len(w.days) :
          /\ DailyWorkoutRequired \subseteq DOMAIN w.days[i]
          /\ ValidDailyWorkout(WithDefaultStatus(w.days[i]))

\* DetailedTrainingPlan.parse_obj(doc) raises no ValidationError
ValidDetailedTrainingPlan(doc) ==
    /\ DetailedPlanRequired \subseteq DOMAIN doc
    /\ \A k \in 1..Len(doc.weeks) : ValidDetailedWeek(doc.weeks[k])

\* TrainingPlanOutline.parse_obj(doc) raises no ValidationError
ValidTrainingPlanOutline(doc) ==
    /\ {"race_name", "race_distance", "total_weeks", "weeks"} \subseteq DOMAIN doc
    /\ \A k \in 1..Len(doc.weeks) :
          {"week_number", "summary"} \subseteq DOMAIN doc.weeks[k]

\* an Optional field of a document: None when the key is absent
OptionalField(doc, k) == IF k \in DOMAIN doc THEN doc[k] ELSE None

ParseDetailedWeekDoc(w) ==
    [week_number |-> w.week_number,
     start_date |-> w.start_date,
     end_date |-> w.end_date,
     days |-> [i \in 1..Len(w.days) |-> ParseDailyWorkout(WithDefaultStatus(w.days[i]))],
     weekly_focus |-> Get(w, "weekly_focus"),
     estimated_weekly_mileage |-> Get(w, "estimated_weekly_mileage")]

\* DetailedTrainingPlan.parse_obj(doc): the declared fields, defaults for
\* those the document lacks, everything else dropped
ParseDetailedTrainingPlan(doc) ==
    [plan_id |-> IF "plan_id" \in DOMAIN doc THEN doc.plan_id ELSE "uuid4()",
     user_id |-> doc.user_id,
     race_name |-> doc.race_name,
     race_distance |-> doc.race_distance,
     race_date |-> doc.race_date,
     goal_time |-> Get(doc, "goal_time"),
     plan_start_date |-> doc.plan_start_date,
     total_weeks |-> doc.total_weeks,
     weeks |-> [k \in 1..Len(doc.weeks) |-> ParseDetailedWeekDoc(doc.weeks[k])],
     overall_notes |-> OptionalField(doc, "overall_notes"),
     personalization_details |-> OptionalField(doc, "personalization_details"),
     generated_at |-> IF "generated_at" \in DOMAIN doc THEN doc.generated_at ELSE "now()",
     plan_version |-> IF "plan_version" \in DOMAIN doc THEN doc.plan_version
                      ELSE "v2.0-daily"]

DumpDailyWorkout(day) ==
    [date |-> day.date,
     day_of_week |-> day.day_of_week,
     workout_type |-> day.workout_type,
     description |-> day.description,
     distance |-> day.distance,
     duration |-> day.duration,
     intensity |-> day.intensity,
     notes |-> day.notes,
     status |-> day.status,
     google_event_id |-> day.google_event_id]

DumpDetailedWeek(week) ==
    [week_number |-> week.week_number,
     start_date |-> week.start_date,
     end_date |-> week.end_date,
     days |-> [i \in 1..Len(week.days) |-> DumpDailyWorkout(week.days[i])],
     weekly_focus |-> week.weekly_focus,
     estimated_weekly_mileage |-> week.estimated_weekly_mileage]

\* plan.model_dump(mode='json'): every declared field, None included
ModelDump(plan) ==
    [plan_id |-> plan.plan_id,
     user_id |-> plan.user_id,
     race_name |-> plan.race_name,
     race_distance |-> plan.race_distance,
     race_date |-> plan.race_date,
     goal_time |-> plan.goal_time,
     plan_start_date |-> plan.plan_start_date,
     total_weeks |-> plan.total_weeks,
     weeks |-> [k \in 1..Len(plan.weeks) |-> DumpDetailedWeek(plan.weeks[k])],
     overall_notes |-> plan.overall_notes,
     personalization_details |-> plan.personalization_details,
     generated_at |-> plan.generated_at,
     plan_version |-> plan.plan_version]

\* ------------------------------------------ documents and request bodies
\* the Monday the plans of the request bodies start on
BodyPlanStart == monday_this_week_of(FirstToday)

\* a one-week plan as the generation endpoint returns it
GeneratedBody(user_id) ==
    GeneratedResponse([kind |-> "json",
                       data |-> AiParsedData("ascending", <<CanonicalDays>>)],
                      [name |-> "City Marathon", distance |-> "Marathon",
                       date |-> isoformat(BodyPlanStart + 9)],
                      1, BodyPlanStart, user_id, NoPreferences, None).body

\* the request body of save and replace: the generated plan ("A"), or the
\* plan after the client edited Tuesday ("B")
PlanBody(user_id, variant) ==
    IF variant = "A" THEN [GeneratedBody(user_id) EXCEPT !.plan_id = "plan-A"]
    ELSE [GeneratedBody(user_id) EXCEPT !.plan_id = "plan-B",
                                        !.weeks[1].days[2].workout_type = "Tempo Run"]

PlanBodies == {PlanBody("u1", "A"), PlanBody("u1", "B"), PlanBody("u2", "A")}

\* a document stored when plans were weekly outlines (TrainingPlanOutline)
OutlineDoc ==
    [race_name |-> "City Marathon", race_distance |-> "Marathon", total_weeks |-> 1,
     weeks |-> <<[week_number |-> 1, summary |-> "Base mileage, long run 8 miles"]>>]

\* a document that is neither a detailed plan nor an outline
CorruptDoc == [race_name |-> "City Marathon"]

\* no request to a saved-plan endpoint yet
NoPlanRequest ==
    [op |-> "none", user_id |-> "", race_id |-> "", body |-> None,
     day_date |-> 0, status |-> ""]

\* printed is what the handler printed about the day it found, if anything
NoPlanResponse == [status_code |-> 0, detail |-> "", body |-> None, printed |-> ""]

\* no saved plan and no request to a saved-plan endpoint
StoreIdle ==
    /\ user_generated_plans = {}
    /\ next_plan_row_id = 1
    /\ plan_request = NoPlanRequest
    /\ plan_response = NoPlanResponse

\* ------------------------------------------------- saved-plan endpoints
PlanRequest(op, user_id, race_id, body, day_date, status) ==
    [op |-> op, user_id |-> user_id, race_id |-> race_id, body |-> body,
     day_date |-> day_date, status |-> status]

\* an HTTPException of a saved-plan endpoint, and a success with its body
StoreError(status_code, detail) ==
    [status_code |-> status_code, detail |-> detail, body |-> None, printed |-> ""]

StoreOk(status_code, body) ==
    [status_code |-> status_code, detail |-> "", body |-> Some(body), printed |-> ""]

\* the saved-plan endpoints leave these alone
StoreFrame ==
    /\ UNCHANGED gen_vars
    /\ UNCHANGED scorer_vars
    /\ UNCHANGED integration_vars

\* the ownership check left out: a slip that C17 must rule out
OwnsPlan_anyone(detailed_plan, user_id) == TRUE

\* detailed_plan.user_id == str(user_id)
OwnsPlan(detailed_plan, user_id) == detailed_plan.user_id = user_id

\* save_generated_plan
SaveGeneratedPlan(user_id, race_id, detailed_plan) ==
    LET matching == PlanRows(user_generated_plans, user_id, race_id)
        saved_id == IF matching = {} THEN next_plan_row_id
                    ELSE (CHOOSE row \in matching : TRUE).id
    IN  /\ (OwnsPlan(detailed_plan, user_id) /\ matching = {}) =>
               next_plan_row_id <= MaxPlanRows
        /\ plan_request' = PlanRequest("save", user_id, race_id, Some(detailed_plan), 0, "")
        /\ IF ~OwnsPlan(detailed_plan, user_id)
           THEN /\ plan_response' =
                       StoreError(403, "Plan user ID does not match authenticated user.")
                /\ UNCHANGED <<user_generated_plans, next_plan_row_id>>
           ELSE /\ user_generated_plans' =
                       Upsert(user_generated_plans, next_plan_row_id, user_id, race_id,
                              ModelDump(detailed_plan))
                /\ next_plan_row_id' = IF matching = {} THEN next_plan_row_id + 1
                                       ELSE next_plan_row_id
                /\ plan_response' =
                       StoreOk(201, [id |-> saved_id, user_id |-> user_id,
                                     race_id |-> race_id])
        /\ StoreFrame

\* get_saved_plan, from the result of the select on
GetSavedPlanResponse(result) ==
    IF result.raises
    THEN StoreError(500, "An error occurred while fetching the saved plan.")
    ELSE IF result.data = None
    THEN StoreError(404, "No saved plan found for this race.")
    ELSE LET plan_data == result.data[1].generated_plan
         IN  IF ValidDetailedTrainingPlan(plan_data)
             THEN StoreOk(200, ParseDetailedTrainingPlan(plan_data))
             ELSE IF ValidTrainingPlanOutline(plan_data)
             THEN StoreError(409, "Saved plan uses an outdated format. Please delete it and generate a new one.")
             ELSE StoreError(500, "Saved plan data is invalid or corrupted.")

GetSavedPlan(user_id, race_id) ==
    /\ plan_request' = PlanRequest("get", user_id, race_id, None, 0, "")
    /\ \E result \in MaybeSingle(PlanRows(user_generated_plans, user_id, race_id)) :
          plan_response' = GetSavedPlanResponse(result)
    /\ UNCHANGED <<user_generated_plans, next_plan_row_id>>
    /\ StoreFrame

\* the positions <<week, day>> (1-based) of the days dated day_date
DayPositions(plan, day_date) ==
    {p \in (1..Len(plan.weeks)) \X (1..7) :
        /\ p[2] <= Len(plan.weeks[p[1]].days)
        /\ plan.weeks[p[1]].days[p[2]].date = day_date}

\* the day the two loops reach first
FirstDayPosition(plan, day_date) ==
    CHOOSE p \in DayPositions(plan, day_date) :
        \A q \in DayPositions(plan, day_date) :
            p[1] < q[1] \/ (p[1] = q[1] /\ p[2] <= q[2])

\* day.status = new_status, unless it is the status already
SetDayStatus(plan, p, new_status) ==
    IF plan.weeks[p[1]].days[p[2]].status = new_status THEN plan
    ELSE [plan EXCEPT !.weeks[p[1]].days[p[2]].status = new_status]

\* update_daily_workout_status up to its write: the response, and the row
\* id and document of step 4 if it is reached
StatusUpdateOutcome(result, day_date, new_status) ==
    IF ~IsIsoDate(day_date)
    THEN [response |-> StoreError(400, "Invalid date format. Use YYYY-MM-DD."),
          write |-> None]
    ELSE IF result.raises
    THEN [response |-> StoreError(500, "Could not retrieve plan for update."),
          write |-> None]
    ELSE IF result.data = None
    THEN [response |-> StoreError(404, "No saved plan found for this race to update."),
          write |-> None]
    ELSE IF ~ValidDetailedTrainingPlan(result.data[1].generated_plan)
    THEN [response |-> StoreError(500, "Failed to parse stored plan data."),
          write |-> None]
    ELSE LET plan == ParseDetailedTrainingPlan(result.data[1].generated_plan)
         IN  IF DayPositions(plan, day_date) = {}
             THEN [response |-> StoreError(404, "Workout for date not found within the plan."),
                   write |-> None]
             ELSE LET p == FirstDayPosition(plan, day_date)
                      updated == SetDayStatus(plan, p, new_status)
                      printed == IF updated = plan THEN "No update needed."
                                 ELSE "Updated status"
                  IN  [response |-> [StoreOk(200, updated.weeks[p[1]].days[p[2]])
                                        EXCEPT !.printed = printed],
                       write |-> Some([id |-> result.data[1].id,
                                       generated_plan |-> ModelDump(updated)])]

\* update_daily_workout_status, with no other request between its select
\* and its update
UpdateDailyWorkoutStatus(user_id, race_id, day_date, new_status) ==
    /\ plan_request' = PlanRequest("update_day_status", user_id, race_id, None,
                                   day_date, new_status)
    /\ \E result \in MaybeSingle(PlanRows(user_generated_plans, user_id, race_id)) :
          LET outcome == StatusUpdateOutcome(result, day_date, new_status)
          IN  /\ plan_response' = outcome.response
              /\ user_generated_plans' =
                     IF outcome.write = None THEN user_generated_plans
                     ELSE UpdateById(user_generated_plans, outcome.write[1].id,
                                     outcome.write[1].generated_plan)
    /\ UNCHANGED next_plan_row_id
    /\ StoreFrame

\* update_saved_plan_structure
UpdateSavedPlanStructure(user_id, race_id, updated_plan) ==
    /\ plan_request' = PlanRequest("replace_structure", user_id, race_id,
                                   Some(updated_plan), 0, "")
    /\ IF ~OwnsPlan(updated_plan, user_id)
       THEN /\ plan_response' =
                   StoreError(403, "Plan user ID does not match authenticated user.")
            /\ UNCHANGED user_generated_plans
       ELSE /\ user_generated_plans' =
                   UpdateByPair(user_generated_plans, user_id, race_id,
                                ModelDump(updated_plan))
            /\ plan_response' = StoreOk(200, updated_plan)
    /\ UNCHANGED next_plan_row_id
    /\ StoreFrame

\* delete_saved_plan
DeleteSavedPlan(user_id, race_id) ==
    /\ plan_request' = PlanRequest("delete", user_id, race_id, None, 0, "")
    /\ user_generated_plans' =
           user_generated_plans \ PlanRows(user_generated_plans, user_id, race_id)
    /\ plan_response' = [StoreError(204, "") EXCEPT !.detail = ""]
    /\ UNCHANGED next_plan_row_id
    /\ StoreFrame

\* the race the saved-plan requests name
StoreRaceIds == {"r1"}

\* day_date of a status update: the Monday of the plan, a date outside the
\* plan, and "2025-02-30"
DayDates ==
    {isoformat(BodyPlanStart), isoformat(BodyPlanStart + 30)} \cup InvalidRaceDates

\* the statuses the status updates ask for
RequestedStatuses == {"pending", "completed"}

NextStore ==
    \/ \E u \in Users, r \in StoreRaceIds, b \in PlanBodies : SaveGeneratedPlan(u, r, b)
    \/ \E u \in Users, r \in StoreRaceIds : GetSavedPlan(u, r)
    \/ \E u \in Users, r \in StoreRaceIds, d \in DayDates, st \in RequestedStatuses :
           UpdateDailyWorkoutStatus(u, r, d, st)
    \/ \E u \in Users, r \in StoreRaceIds, b \in PlanBodies :
           UpdateSavedPlanStructure(u, r, b)
    \/ \E u \in Users, r \in StoreRaceIds : DeleteSavedPlan(u, r)

\* user_generated_plans at the start: empty, or one document of u1 from an
\* earlier version of the application
LegacyPlanTables ==
    {{}, {PlanRow(1, "u1", "r1", OutlineDoc)}, {PlanRow(1, "u1", "r1", CorruptDoc)}}

\* requests to the saved-plan endpoints, one after the other
InitStoreOnly ==
    /\ user_generated_plans \in LegacyPlanTables
    /\ next_plan_row_id = Cardinality(user_generated_plans) + 1
    /\ plan_request = NoPlanRequest
    /\ plan_response = NoPlanResponse
    /\ GenIdle
    /\ ScorerIdle
    /\ IntegrationIdle

SpecStore == InitStoreOnly /\ [][NextStore]_vars

\* ----------------------------------------------- generate_training_plan
\* steps 1-3 and the API-key check: the outcome before the model is called;
\* an HTTPException raised inside a try block whose last clause is
\* "except Exception" is caught there and replaced by that clause's 500
DateOutcome(race, today_obj) ==
    IF race.date = 0
    THEN HttpError(500, "Could not calculate plan dates.", 0)
    ELSE IF ~IsIsoDate(race.date)
    THEN HttpError(400, "Invalid race date format.", 0)
    ELSE IF fromisoformat(race.date) <= today_obj
    THEN HttpError(500, "Could not calculate plan dates.", 0)
    ELSE IF weeks_until_of(fromisoformat(race.date), today_obj) < 1
    THEN HttpError(500, "Could not calculate plan dates.", 0)
    ELSE IF weeks_until_of(fromisoformat(race.date), today_obj) > MAX_PLAN_WEEKS
    THEN HttpError(500, "Could not calculate plan dates.", 0)
    ELSE NoResponse

GenerateFail(resp) ==
    /\ gen_pc' = "done"
    /\ response' = resp
    /\ UNCHANGED <<weeks_until, plan_start_date_obj>>

\* the generation request leaves these alone
GenFrame ==
    /\ UNCHANGED <<today, races, gemini_api_key, req_race_id, current_user, request_data>>
    /\ UNCHANGED scorer_vars
    /\ UNCHANGED store_vars
    /\ UNCHANGED integration_vars

GenerateBegin ==
    /\ gen_pc = "start"
    /\ IF req_race_id \notin DOMAIN races
       THEN GenerateFail(HttpError(500, "Could not fetch race details.", 0))
       ELSE LET race == races[req_race_id]
                race_date_obj == fromisoformat(race.date)
            IN  IF DateOutcome(race, today) # NoResponse
                THEN GenerateFail(DateOutcome(race, today))
                ELSE /\ weeks_until' = weeks_until_of(race_date_obj, today)
                     /\ plan_start_date_obj' =
                            get_monday_of_week(race_date_obj, weeks_until_of(race_date_obj, today))
                     /\ IF ~gemini_api_key
                        THEN /\ gen_pc' = "done"
                             /\ response' = HttpError(503, "AI service is not configured.", 0)
                        ELSE /\ gen_pc' = "awaiting_model"
                             /\ UNCHANGED response
    /\ pr_used' = IF req_race_id \in DOMAIN races
                  THEN PrUsed(user_prs, current_user, races[req_race_id])
                  ELSE pr_used
    /\ UNCHANGED <<raw_text, repaired_weeks>>
    /\ GenFrame

\* ModelRespond persisting the plan it returns: a slip that C11 must rule out
ModelRespond_saving ==
    /\ gen_pc = "awaiting_model"
    /\ \E text \in RawTexts :
          LET generated == GeneratedResponse(text, races[req_race_id], weeks_until,
                                             plan_start_date_obj, current_user,
                                             request_data, pr_used)
          IN  /\ raw_text' = text
              /\ repaired_weeks' = IF text.kind = "json"
                                   THEN RepairWeeks(text.data.weeks) ELSE <<>>
              /\ response' = generated
              /\ user_generated_plans' =
                     IF generated.status_code = 200
                     THEN Upsert(user_generated_plans, next_plan_row_id, current_user,
                                 req_race_id, ModelDump(generated.body))
                     ELSE user_generated_plans
    /\ gen_pc' = "done"
    /\ UNCHANGED <<weeks_until, plan_start_date_obj, pr_used>>
    /\ UNCHANGED <<today, races, gemini_api_key, req_race_id, current_user, request_data>>
    /\ UNCHANGED scorer_vars
    /\ UNCHANGED <<next_plan_row_id, plan_request, plan_response>>
    /\ UNCHANGED integration_vars

\* the model answers: extraction, parse, repair, assembly, validation
ModelRespond ==
    /\ gen_pc = "awaiting_model"
    /\ \E text \in RawTexts :
          /\ raw_text' = text
          /\ repaired_weeks' = IF text.kind = "json"
                               THEN RepairWeeks(text.data.weeks) ELSE <<>>
          /\ response' = GeneratedResponse(text, races[req_race_id], weeks_until,
                                           plan_start_date_obj, current_user,
                                           request_data, pr_used)
    /\ gen_pc' = "done"
    /\ UNCHANGED <<weeks_until, plan_start_date_obj, pr_used>>
    /\ GenFrame

NextGen == GenerateBegin \/ ModelRespond

\* generation requests alone, with empty PR and achievement tables
InitGenOnly == InitGen /\ ScorerIdle /\ StoreIdle /\ IntegrationIdle

SpecGen == InitGenOnly /\ [][NextGen]_vars

\* ------------------------- generation with preferences, PRs, a saved plan
FullPreferences ==
    [goal_time |-> "3:30:00", current_weekly_mileage |-> 20,
     peak_weekly_mileage |-> 40, preferred_running_days |-> 4,
     preferred_long_run_day |-> "Sunday"]

\* request bodies: every field None, every field set, some set; a runner
\* who does not run yet (0 miles/week); an empty goal time
Requests ==
    {NoPreferences,
     FullPreferences,
     [goal_time |-> "3:30:00"],
     [preferred_running_days |-> 5, preferred_long_run_day |-> "Saturday"],
     [current_weekly_mileage |-> 0, peak_weekly_mileage |-> 30],
     [goal_time |-> ""]}

MarathonPr(id, user_id, time_in_seconds) ==
    [id |-> id, user_id |-> user_id, distance |-> "Marathon",
     time_in_seconds |-> time_in_seconds, is_official |-> TRUE]

\* user_prs: empty, one marathon PR of u1, two marathon PRs of u1
PrTables ==
    {{},
     {MarathonPr(1, "u1", 12000)},
     {MarathonPr(1, "u1", 12000), MarathonPr(2, "u1", 11000)}}

\* user_generated_plans: empty, or a plan saved by u1 for race r1
SavedPlanTables == {{}, {PlanRow(1, "u1", "r1", ModelDump(PlanBody("u1", "B")))}}

\* one generation request for a race nine days ahead, by either user
InitGenRequestOnly ==
    /\ today = FirstToday
    /\ races = [id \in {"r1"} |-> RaceRow(isoformat(FirstToday + 9))]
    /\ gemini_api_key = TRUE
    /\ req_race_id = "r1"
    /\ gen_pc = "start"
    /\ weeks_until = 0
    /\ plan_start_date_obj = 0
    /\ raw_text = NoText
    /\ response = NoResponse
    /\ current_user \in Users
    /\ request_data \in Requests
    /\ pr_used = None
    /\ repaired_weeks = <<>>
    /\ achievements = Catalog(AllCodes)
    /\ user_prs \in PrTables
    /\ user_achievements = [p \in Users \X AchievementIds |-> 0]
    /\ next_pr_id = Cardinality(user_prs) + 1
    /\ tasks = <<>>
    /\ user_generated_plans \in SavedPlanTables
    /\ next_plan_row_id = Cardinality(user_generated_plans) + 1
    /\ plan_request = NoPlanRequest
    /\ plan_response = NoPlanResponse
    /\ IntegrationIdle

SpecGenRequest == InitGenRequestOnly /\ [][NextGen]_vars

\* ===================================================== generation: claims
\* the request named a race whose date parses
RaceDated ==
    /\ req_race_id \in DOMAIN races
    /\ races[req_race_id].date # 0
    /\ IsIsoDate(races[req_race_id].date)

RaceDateObj == fromisoformat(races[req_race_id].date)

\* the date calculation accepted the request (1 <= weeks_until <= 20)
DatesAccepted == gen_pc # "start" /\ weeks_until >= 1

\* the Monday of the Monday..Sunday week that contains day d
MondayOfWeekContaining(d) == CHOOSE m \in (d - 6)..d : m % 7 = 0

ReturnedPlan == gen_pc = "done" /\ response.status_code = 200

\* C3: for every race date after today for which generation is accepted,
\* plan_start_date is a Monday and plan_start_date + 7*weeks_until days is
\* the Monday of the week containing the race date.
C3_PlanStartAligned ==
    DatesAccepted =>
        /\ RaceDateObj > today
        /\ weeks_until \in 1..MAX_PLAN_WEEKS
        /\ plan_start_date_obj % 7 = 0
        /\ plan_start_date_obj + 7 * weeks_until = MondayOfWeekContaining(RaceDateObj)

C3_Witness ==
    /\ DatesAccepted
    /\ weeks_until = 2
    /\ RaceDateObj % 7 = 3
    /\ today % 7 = 5

\* C4: when today is a Monday and the race is exactly 70 days after today,
\* weeks_until = 10 and plan_start_date = today.
C4_SeventyDays ==
    (gen_pc # "start" /\ RaceDated /\ today % 7 = 0 /\ RaceDateObj = today + 70) =>
        /\ weeks_until = 10
        /\ plan_start_date_obj = today

\* C5: for every weekday of today, a request for a race dated 2 days after
\* today fails with InvalidInput (HTTP 400) and returns no plan.
C5_TwoDaysAway ==
    (gen_pc # "start" /\ RaceDated /\ RaceDateObj = today + 2) =>
        /\ gen_pc = "done"
        /\ response.status_code = 400
        /\ response.body = NoPlan

\* C6: a race date not after today, weeks_until < 1 or weeks_until > 20 ends
\* the request with a client error (HTTP 400) whose detail names the
\* violated constraint, not with a server error.
C6_ClientError ==
    (/\ gen_pc # "start"
     /\ RaceDated
     /\ \/ RaceDateObj <= today
        \/ weeks_until_of(RaceDateObj, today) < 1
        \/ weeks_until_of(RaceDateObj, today) > MAX_PLAN_WEEKS) =>
        /\ gen_pc = "done"
        /\ response.status_code = 400
        /\ response.detail # "Could not calculate plan dates."

\* C7: every returned plan has len(weeks) = total_weeks = weeks_until, seven
\* days in every week, and days[i].date = start_date + i days.
C7_PlanShape ==
    ReturnedPlan =>
        LET plan == response.body
        IN  /\ Len(plan.weeks) = plan.total_weeks
            /\ plan.total_weeks = weeks_until
            /\ \A k \in 1..Len(plan.weeks) :
                  /\ Len(plan.weeks[k].days) = 7
                  /\ \A i \in 1..7 :
                        plan.weeks[k].days[i].date =
                            isoformat(fromisoformat(plan.weeks[k].start_date) + (i - 1))

\* C8: in every returned plan the day at position i of each week has
\* day_of_week equal to the i-th name of Monday..Sunday.
C8_DayNameMatchesPosition ==
    ReturnedPlan =>
        \A k \in 1..Len(response.body.weeks) :
            \A i \in 1..Len(response.body.weeks[k].days) :
                response.body.weeks[k].days[i].day_of_week = day_order[i]

\* C9: every day of every returned plan has status = pending.
C9_AllPending ==
    ReturnedPlan =>
        \A k \in 1..Len(response.body.weeks) :
            \A i \in 1..Len(response.body.weeks[k].days) :
                response.body.weeks[k].days[i].status = "pending"

ModelAnswered == gen_pc = "done" /\ raw_text.kind = "json"

ModelWeekCount == Len(raw_text.data.weeks)

IncompleteGeneration(week) == HttpError(500, "AI response missing data for week", week)

\* C10 as stated: fewer model weeks than weeks_until always fails with the
\* IncompleteGeneration error naming week len(model weeks) + 1; more model
\* weeks give a plan of exactly weeks_until weeks; never a shorter plan.
C10_Original ==
    ModelAnswered =>
        /\ ModelWeekCount < weeks_until =>
               response = IncompleteGeneration(ModelWeekCount + 1)
        /\ response.status_code = 200 =>
               /\ Len(response.body.weeks) = weeks_until
               /\ ModelWeekCount >= weeks_until

\* every week the model returned has exactly seven days
ModelWeeksHaveSevenDays ==
    \A k \in 1..ModelWeekCount : Len(raw_text.data.weeks[k].days) = 7

\* C10 (amended): fewer model weeks than weeks_until never give a plan; the
\* error is IncompleteGeneration naming week len(model weeks) + 1 when every
\* returned week has seven days, otherwise the error of the first returned
\* week that has not; a returned plan has exactly weeks_until weeks.
C10_IncompleteGeneration ==
    ModelAnswered =>
        /\ ModelWeekCount < weeks_until =>
               /\ response.status_code = 500
               /\ response.body = NoPlan
               /\ ModelWeeksHaveSevenDays =>
                      response = IncompleteGeneration(ModelWeekCount + 1)
               /\ ~ModelWeeksHaveSevenDays =>
                      /\ response.detail = "AI returned wrong number of days for week"
                      /\ response.week \in 1..ModelWeekCount
        /\ response.status_code = 200 =>
               /\ Len(response.body.weeks) = weeks_until
               /\ ModelWeekCount >= weeks_until

C10_Witness ==
    /\ ModelAnswered
    /\ weeks_until = 2
    /\ ModelWeekCount = 1
    /\ ModelWeeksHaveSevenDays
    /\ response = IncompleteGeneration(2)

\* ------------------------------------ plan_data and Plan Store: claims
\* the plan has the caller's id, weeks_until weeks and seven valid days in
\* each of them
FullyAssembled(plan) ==
    /\ plan.user_id = current_user
    /\ plan.total_weeks = weeks_until
    /\ Len(plan.weeks) = weeks_until
    /\ \A k \in 1..Len(plan.weeks) :
          /\ Len(plan.weeks[k].days) = 7
          /\ \A i \in 1..7 : ValidDailyWorkout(plan.weeks[k].days[i])

\* C11: a generation request either returns a fully assembled plan or fails
\* with an error and no plan, and no step of it writes to the Plan Store:
\* user_generated_plans is the same before and after.
C11_AllOrNothing ==
    /\ [][user_generated_plans' = user_generated_plans]_vars
    /\ [](gen_pc = "done" =>
             IF response.status_code = 200
             THEN FullyAssembled(response.body)
             ELSE response.status_code >= 400 /\ response.body = NoPlan)

\* a plan was returned for a pair that has another plan saved, and the saved
\* plan is still there
C11_Witness ==
    /\ ReturnedPlan
    /\ \E row \in PlanRows(user_generated_plans, current_user, req_race_id) :
          row.generated_plan # ModelDump(response.body)

\* the personalization_details keys of the inputs that are not None
SuppliedDetailKeys ==
    {k \in {"pr_used"} : pr_used # None}
    \cup {k \in {"goal_time_set"} : "goal_time" \in DOMAIN request_data}
    \cup {k \in {"current_mileage_input"} : "current_weekly_mileage" \in DOMAIN request_data}
    \cup {k \in {"peak_mileage_input"} : "peak_weekly_mileage" \in DOMAIN request_data}
    \cup {k \in {"running_days_input"} : "preferred_running_days" \in DOMAIN request_data}
    \cup {k \in {"long_run_day_input"} : "preferred_long_run_day" \in DOMAIN request_data}

\* C15: personalization_details of a generated plan has an entry for exactly
\* the inputs that were supplied non-null (PR summary when a PR was found,
\* goal time, mileages, running days, long-run day), and is None when none
\* was supplied.
C15_PersonalizationDetails ==
    ReturnedPlan =>
        LET details == response.body.personalization_details
        IN  IF SuppliedDetailKeys = {} THEN details = None
            ELSE details # None /\ DOMAIN details[1] = SuppliedDetailKeys

\* the rows of the pair the request of this step names, before the step
RequestedRows ==
    PlanRows(user_generated_plans, plan_request'.user_id, plan_request'.race_id)

\* C16: after any sequence of save, update_day_status, replace_structure and
\* delete the Plan Store holds at most one plan per (user, race) pair, and a
\* get for the pair that directly follows a successful save returns exactly
\* the saved plan.
C16_OnePlanPerPair ==
    /\ [](\A u \in Users, r \in StoreRaceIds :
             Cardinality(PlanRows(user_generated_plans, u, r)) <= 1)
    /\ [][(/\ plan_request.op = "save"
           /\ plan_response.status_code = 201
           /\ plan_request'.op = "get"
           /\ plan_request'.user_id = plan_request.user_id
           /\ plan_request'.race_id = plan_request.race_id) =>
              plan_response' = StoreOk(200, plan_request.body[1])]_vars

\* u1's get returned plan "B", the only plan stored for (u1, r1), in the
\* row that held the outline document or plan "A" before
C16_Witness ==
    /\ plan_request.op = "get"
    /\ plan_request.user_id = "u1"
    /\ plan_response = StoreOk(200, PlanBody("u1", "B"))
    /\ PlanRows(user_generated_plans, "u1", "r1") =
           {PlanRow(1, "u1", "r1", ModelDump(PlanBody("u1", "B")))}
    /\ PlanRows(user_generated_plans, "u2", "r1") # {}

\* the request of this step is a save or replace_structure whose plan
\* carries another user's id
ForeignPlanRequested ==
    /\ plan_request'.op \in {"save", "replace_structure"}
    /\ plan_request'.body[1].user_id # plan_request'.user_id

\* C17: save and replace_structure answer a plan whose user_id is not the
\* caller's with 403 and leave every stored plan unchanged; no request
\* creates or overwrites a row of another user, and a plan document is only
\* stored in a row of the user it names.
C17_OwnershipChecked ==
    /\ [][ForeignPlanRequested =>
              /\ plan_response'.status_code = 403
              /\ user_generated_plans' = user_generated_plans]_vars
    /\ [][\A row \in (user_generated_plans' \ user_generated_plans)
                        \cup (user_generated_plans \ user_generated_plans') :
              row.user_id = plan_request'.user_id]_vars
    /\ [](\A row \in user_generated_plans :
             ValidDetailedTrainingPlan(row.generated_plan) =>
                 row.generated_plan.user_id = row.user_id)

\* u1 sent u2's plan while u2 has a plan stored: 403
C17_Witness ==
    /\ plan_request.op \in {"save", "replace_structure"}
    /\ plan_request.user_id = "u1"
    /\ plan_request.body[1].user_id = "u2"
    /\ plan_response.status_code = 403
    /\ PlanRows(user_generated_plans, "u2", "r1") # {}

\* C18: get returns 404 when no plan is stored, the plan when the stored
\* document validates as a DetailedTrainingPlan, and 409 without a plan when
\* it does not but validates as a TrainingPlanOutline; get never modifies
\* the stored document.
C18_GetOutcomes ==
    [][plan_request'.op = "get" =>
          /\ user_generated_plans' = user_generated_plans
          /\ RequestedRows = {} => plan_response'.status_code = 404
          /\ \A row \in RequestedRows :
                IF ValidDetailedTrainingPlan(row.generated_plan)
                THEN plan_response' =
                         StoreOk(200, ParseDetailedTrainingPlan(row.generated_plan))
                ELSE ValidTrainingPlanOutline(row.generated_plan) =>
                         /\ plan_response'.status_code = 409
                         /\ plan_response'.body = None]_vars

\* C19: update_day_status fails with 404 when no plan is stored for the pair
\* or no day of the stored plan has the requested date, and with 400 when
\* the date is not a valid date; the stored plans are unchanged in each case.
C19_StatusUpdateErrors ==
    [][plan_request'.op = "update_day_status" =>
          LET day_date == plan_request'.day_date
          IN  /\ ~IsIsoDate(day_date) =>
                     /\ plan_response'.status_code = 400
                     /\ user_generated_plans' = user_generated_plans
              /\ (IsIsoDate(day_date) /\ RequestedRows = {}) =>
                     /\ plan_response'.status_code = 404
                     /\ user_generated_plans' = user_generated_plans
              /\ \A row \in RequestedRows :
                     (/\ IsIsoDate(day_date)
                      /\ ValidDetailedTrainingPlan(row.generated_plan)
                      /\ DayPositions(ParseDetailedTrainingPlan(row.generated_plan),
                                      day_date) = {}) =>
                         /\ plan_response'.status_code = 404
                         /\ user_generated_plans' = user_generated_plans]_vars

C21_ReplaceThenGet ==
    [][(/\ plan_request.op = "replace_structure"
        /\ plan_response.status_code = 200
        /\ plan_request'.op = "get"
        /\ plan_request'.user_id = plan_request.user_id
        /\ plan_request'.race_id = plan_request.race_id) =>
           /\ plan_response' = StoreOk(200, plan_request.body[1])
           /\ plan_response.body = plan_request.body]_vars

\* C22: delete succeeds with 204 whether or not a plan is stored, removes
\* the plan of the pair and no other plan; a get for the pair that directly
\* follows returns 404 and a second delete succeeds as well.
C22_DeleteIdempotent ==
    /\ [][plan_request'.op = "delete" =>
              /\ plan_response'.status_code = 204
              /\ user_generated_plans' = user_generated_plans \ RequestedRows]_vars
    /\ [][(/\ plan_request.op = "delete"
           /\ plan_request'.op = "get"
           /\ plan_request'.user_id = plan_request.user_id
           /\ plan_request'.race_id = plan_request.race_id) =>
              plan_response'.status_code = 404]_vars

\* ---------------------------------------------------- repair: claims
\* the weeks of the decoded model output that have exactly seven days
SevenDayWeeks == {k \in 1..ModelWeekCount : Len(raw_text.data.weeks[k].days) = 7}

\* day i (1-based) of week k as the model returned it, and after the repair
ModelDay(k, i) == raw_text.data.weeks[k].days[i]

RepairedDay(k, i) == repaired_weeks[k].days[i]

\* C12: repair of a day whose workout_type is missing or outside the enum
\* sets workout_type to "Other" and, if the description was empty, sets the
\* description to "Other".
C12_WorkoutTypeRepair ==
    ModelAnswered =>
        \A k \in SevenDayWeeks : \A i \in 1..7 :
            Get(ModelDay(k, i), "workout_type") \notin allowed_workout_types =>
                /\ RepairedDay(k, i).workout_type = "Other"
                /\ Falsy(Get(ModelDay(k, i), "description")) =>
                       RepairedDay(k, i).description = "Other"

\* C13: repair of a 7-day week overwrites a missing or invalid day_of_week
\* at index i with the i-th name of Monday..Sunday and leaves a day_of_week
\* that is one of the seven names unchanged.
C13_DayOfWeekRepair ==
    ModelAnswered =>
        \A k \in SevenDayWeeks : \A i \in 1..7 :
            LET current_day_name == Get(ModelDay(k, i), "day_of_week")
            IN  RepairedDay(k, i).day_of_week =
                    IF current_day_name \in DayNames
                    THEN current_day_name ELSE day_order[i]

\* "Funday" at index 3 became "Thursday", the missing name at index 0 became
\* "Monday", "Tuesday" at index 1 stayed
C13_Witness ==
    /\ ModelAnswered
    /\ \E k \in SevenDayWeeks :
          /\ Get(ModelDay(k, 4), "day_of_week") = "Funday"
          /\ RepairedDay(k, 4).day_of_week = "Thursday"
          /\ "day_of_week" \notin DOMAIN ModelDay(k, 1)
          /\ RepairedDay(k, 1).day_of_week = "Monday"
          /\ Get(ModelDay(k, 2), "day_of_week") = "Tuesday"
          /\ RepairedDay(k, 2).day_of_week = "Tuesday"

\* C14: the repair is idempotent: applied to the repaired data it changes
\* nothing.
C14_RepairIdempotent ==
    ModelAnswered => RepairWeeks(repaired_weeks) = repaired_weeks

\* the repair changed the model output, in a week of two
C14_Witness ==
    /\ ModelAnswered
    /\ ModelWeekCount = 2
    /\ repaired_weeks # raw_text.data.weeks
    /\ \E k \in SevenDayWeeks :
          /\ "workout_type" \notin DOMAIN ModelDay(k, 6)
          /\ RepairedDay(k, 6).workout_type = "Other"
    /\ RepairWeeks(repaired_weeks) = repaired_weeks

\* C30: for every accepted generation request (any weekday of today, any
\* weekday of the race date, 1 <= weeks_until <= 20), plan_start_date is the
\* Monday of the week containing today.
C30_StartsThisWeek ==
    (DatesAccepted /\ RaceDated) =>
        plan_start_date_obj = MondayOfWeekContaining(today)

\* ================================================== achievement scorer
STANDARD_DISTANCES == {"5K", "10K", "Half Marathon", "Marathon"}

ultra_distances == {"50K", "50 Miles", "100K", "100 Miles"}

distance_code_map ==
    [d \in STANDARD_DISTANCES |->
        IF d = "5K" THEN "5K_FINISHER"
        ELSE IF d = "10K" THEN "10K_FINISHER"
        ELSE IF d = "Half Marathon" THEN "HALF_MARATHONER"
        ELSE "MARATHONER"]

\* achievements_map: code -> id, from the rows of the achievements table
AchievementsMap(rows) ==
    [c \in {r.code : r \in rows} |-> (CHOOSE r \in rows : r.code = c).id]

\* check_and_add without the look at the earned set: a slip that C2 must
\* rule out
check_and_add_unchecked(code, st, achievements_map) ==
    IF code \in DOMAIN achievements_map
    THEN [earned |-> st.earned \cup {achievements_map[code]},
          to_award |-> Append(st.to_award, achievements_map[code])]
    ELSE st

\* st = (earned_achievement_ids, achievements_to_award) before and after
check_and_add(code, st, achievements_map) ==
    IF code \in DOMAIN achievements_map
    THEN LET achievement_id == achievements_map[code]
         IN  IF achievement_id \notin st.earned
             THEN [earned |-> st.earned \cup {achievement_id},
                   to_award |-> Append(st.to_award, achievement_id)]
             ELSE st
    ELSE st

When(cond, code) == IF cond THEN <<code>> ELSE <<>>

\* the other PRs of the history at the distance of pr_data
OtherPrsAtDistance(pr_data, history) ==
    {pr \in history : pr.id # pr_data.id /\ pr.distance = pr_data.distance}

\* the codes the rules pass to check_and_add, in the order of the calls
RuleCodes(pr_data, history) ==
    LET pr_count == Cardinality(history)
        others == OtherPrsAtDistance(pr_data, history)
        first_for_distance == others = {}
        logged_standard_distances ==
            {pr.distance : pr \in {q \in history : q.distance \in STANDARD_DISTANCES}}
        beats_previous_best ==
            /\ others # {}
            /\ \A pr \in others : pr_data.time_in_seconds < pr.time_in_seconds
    IN  When(pr_count = 1, "FIRST_PR_LOGGED")
        \o When(pr_data.is_official, "OFFICIAL_RACER")
        \o (IF ~first_for_distance THEN <<>>
            ELSE IF pr_data.distance \in DOMAIN distance_code_map
                 THEN <<distance_code_map[pr_data.distance]>>
                 ELSE When(pr_data.distance \in ultra_distances, "ULTRA_RUNNER"))
        \o When(pr_data.distance = "5K" /\ pr_data.time_in_seconds < 25 * 60,
                "SPEEDY_5K")
        \o When(pr_data.distance = "Half Marathon"
                    /\ pr_data.time_in_seconds < 2 * 60 * 60, "SUB_2_HALF")
        \o When(pr_data.distance = "Marathon"
                    /\ pr_data.time_in_seconds < 3 * 60 * 60, "BQ_CONTENDER")
        \o When(Cardinality(logged_standard_distances) >= 3, "WELL_ROUNDED")
        \o When(beats_previous_best, "PERSONAL_BEST")

RECURSIVE ApplyChecks(_, _, _)
ApplyChecks(codes, st, achievements_map) ==
    IF codes = <<>> THEN st
    ELSE ApplyChecks(Tail(codes), check_and_add(Head(codes), st, achievements_map),
                     achievements_map)

\* .select("id, distance, time_in_seconds").eq("user_id", ...)
PrHistory(rows, user_id) ==
    {[id |-> r.id, distance |-> r.distance, time_in_seconds |-> r.time_in_seconds] :
        r \in {q \in rows : q.user_id = user_id}}

\* .select("achievement_id").eq("user_id", ...), as a set of ids
EarnedIds(table, user_id) ==
    {a \in AchievementIds : table[<<user_id, a>>] > 0}

\* .insert(achievements_to_award): one new row per queued achievement
RECURSIVE InsertRows(_, _, _)
InsertRows(table, user_id, to_award) ==
    IF to_award = <<>> THEN table
    ELSE InsertRows([table EXCEPT ![<<user_id, Head(to_award)>>] = @ + 1],
                    user_id, Tail(to_award))

\* a background task as add_task leaves it: nothing fetched yet
NewTask(user_id, pr_data) ==
    [pc |-> "fetch_definitions",
     user_id |-> user_id,
     pr_data |-> pr_data,
     achievements_map |-> <<>>,
     earned_achievement_ids |-> {},
     user_prs |-> {},
     achievements_to_award |-> <<>>]

\* ------------------------------------------------------------ PR handlers
\* create_my_pr: insert the row, schedule the scorer with the created row
CreatePr(user_id, pr_in) ==
    /\ next_pr_id <= MaxPrs
    /\ Len(tasks) < MaxTasks
    /\ LET created_pr == [id |-> next_pr_id, user_id |-> user_id] @@ pr_in
       IN  /\ user_prs' = user_prs \cup {created_pr}
           /\ tasks' = Append(tasks, NewTask(user_id, created_pr))
    /\ next_pr_id' = next_pr_id + 1
    /\ UNCHANGED <<achievements, user_achievements>>
    /\ UNCHANGED gen_vars
    /\ UNCHANGED store_vars
    /\ UNCHANGED integration_vars

\* update_my_pr: update the caller's row, schedule the scorer with the result
UpdatePr(user_id, pr_id, update_data) ==
    /\ Len(tasks) < MaxTasks
    /\ \E row \in user_prs :
          /\ row.id = pr_id
          /\ row.user_id = user_id
          /\ LET updated_pr == update_data @@ row
             IN  /\ user_prs' = (user_prs \ {row}) \cup {updated_pr}
                 /\ tasks' = Append(tasks, NewTask(user_id, updated_pr))
    /\ UNCHANGED <<achievements, user_achievements, next_pr_id>>
    /\ UNCHANGED gen_vars
    /\ UNCHANGED store_vars
    /\ UNCHANGED integration_vars

\* delete_my_pr: delete the caller's row
DeletePr(user_id, pr_id) ==
    /\ \E row \in user_prs :
          /\ row.id = pr_id
          /\ row.user_id = user_id
          /\ user_prs' = user_prs \ {row}
    /\ UNCHANGED <<achievements, user_achievements, next_pr_id, tasks>>
    /\ UNCHANGED gen_vars
    /\ UNCHANGED store_vars
    /\ UNCHANGED integration_vars

\* ------------------------------------- check_and_award_achievements steps
TaskIds == 1..Len(tasks)

\* 1. fetch all achievement definitions
ScorerFetchDefinitions(t) ==
    /\ tasks[t].pc = "fetch_definitions"
    /\ tasks' = [tasks EXCEPT ![t].achievements_map = AchievementsMap(achievements),
                              ![t].pc = "fetch_earned"]
    /\ UNCHANGED <<achievements, user_prs, user_achievements, next_pr_id>>
    /\ UNCHANGED gen_vars
    /\ UNCHANGED store_vars
    /\ UNCHANGED integration_vars

\* 2. fetch the user's existing earned achievements
ScorerFetchEarned(t) ==
    /\ tasks[t].pc = "fetch_earned"
    /\ tasks' = [tasks EXCEPT
                    ![t].earned_achievement_ids = EarnedIds(user_achievements, tasks[t].user_id),
                    ![t].pc = "fetch_history"]
    /\ UNCHANGED <<achievements, user_prs, user_achievements, next_pr_id>>
    /\ UNCHANGED gen_vars
    /\ UNCHANGED store_vars
    /\ UNCHANGED integration_vars

\* 3. fetch the user's PR history
ScorerFetchHistory(t) ==
    /\ tasks[t].pc = "fetch_history"
    /\ tasks' = [tasks EXCEPT ![t].user_prs = PrHistory(user_prs, tasks[t].user_id),
                              ![t].pc = "award"]
    /\ UNCHANGED <<achievements, user_prs, user_achievements, next_pr_id>>
    /\ UNCHANGED gen_vars
    /\ UNCHANGED store_vars
    /\ UNCHANGED integration_vars

\* the rules, then 4. insert the newly earned achievements in one batch
ScorerAward(t) ==
    /\ tasks[t].pc = "award"
    /\ LET st == ApplyChecks(RuleCodes(tasks[t].pr_data, tasks[t].user_prs),
                             [earned |-> tasks[t].earned_achievement_ids,
                              to_award |-> <<>>],
                             tasks[t].achievements_map)
       IN  /\ tasks' = [tasks EXCEPT ![t].earned_achievement_ids = st.earned,
                                     ![t].achievements_to_award = st.to_award,
                                     ![t].pc = "done"]
           /\ user_achievements' =
                  InsertRows(user_achievements, tasks[t].user_id, st.to_award)
    /\ UNCHANGED <<achievements, user_prs, next_pr_id>>
    /\ UNCHANGED gen_vars
    /\ UNCHANGED store_vars
    /\ UNCHANGED integration_vars

\* the runs that ended in the except clause or an early return
FailedRuns == {t \in TaskIds : tasks[t].pc = "failed"}

\* a failure of step 1, 2 or 3 rolled back into the PR write: a slip that
\* C23 must rule out
ScorerFetchRaise_undoing_write(t) ==
    /\ Cardinality(FailedRuns) < MaxFailures
    /\ tasks[t].pc \in {"fetch_definitions", "fetch_earned", "fetch_history"}
    /\ tasks' = [tasks EXCEPT ![t].pc = "failed"]
    /\ user_prs' = user_prs \ {tasks[t].pr_data}
    /\ UNCHANGED <<achievements, user_achievements, next_pr_id>>
    /\ UNCHANGED gen_vars
    /\ UNCHANGED store_vars
    /\ UNCHANGED integration_vars

\* the database call of step 1, 2 or 3 raises, or its response has no
\* data: the run logs the error and ends
ScorerFetchRaise(t) ==
    /\ Cardinality(FailedRuns) < MaxFailures
    /\ tasks[t].pc \in {"fetch_definitions", "fetch_earned", "fetch_history"}
    /\ tasks' = [tasks EXCEPT ![t].pc = "failed"]
    /\ UNCHANGED <<achievements, user_prs, user_achievements, next_pr_id>>
    /\ UNCHANGED gen_vars
    /\ UNCHANGED store_vars
    /\ UNCHANGED integration_vars

\* the rules, then the batch insert of step 4 raises: no row is inserted,
\* the run logs the error and ends
ScorerInsertRaise(t) ==
    /\ Cardinality(FailedRuns) < MaxFailures
    /\ tasks[t].pc = "award"
    /\ LET st == ApplyChecks(RuleCodes(tasks[t].pr_data, tasks[t].user_prs),
                             [earned |-> tasks[t].earned_achievement_ids,
                              to_award |-> <<>>],
                             tasks[t].achievements_map)
       IN  /\ st.to_award # <<>>
           /\ tasks' = [tasks EXCEPT ![t].earned_achievement_ids = st.earned,
                                     ![t].achievements_to_award = st.to_award,
                                     ![t].pc = "failed"]
    /\ UNCHANGED <<achievements, user_prs, user_achievements, next_pr_id>>
    /\ UNCHANGED gen_vars
    /\ UNCHANGED store_vars
    /\ UNCHANGED integration_vars

PrWrite ==
    \/ \E u \in Users, pr_in \in PrInputs : CreatePr(u, pr_in)
    \/ \E u \in Users, id \in 1..MaxPrs, upd \in PrUpdates : UpdatePr(u, id, upd)
    \/ \E u \in Users, id \in 1..MaxPrs : DeletePr(u, id)

NextScorer ==
    \/ PrWrite
    \/ \E t \in TaskIds : ScorerFetchDefinitions(t)
    \/ \E t \in TaskIds : ScorerFetchEarned(t)
    \/ \E t \in TaskIds : ScorerFetchHistory(t)
    \/ \E t \in TaskIds : ScorerAward(t)

\* PR writes whose scorer runs interleave at every database call
InitScorerOnly == InitScorer /\ GenIdle /\ StoreIdle /\ IntegrationIdle

SpecScorer == InitScorerOnly /\ [][NextScorer]_vars

\* a run is in progress once it has fetched the definitions
Running(t) == tasks[t].pc \in {"fetch_earned", "fetch_history", "award"}

\* a run starts only when no other run is in progress
ScorerStartAlone(t) ==
    /\ \A o \in TaskIds : ~Running(o)
    /\ ScorerFetchDefinitions(t)

NextScorerSerial ==
    \/ PrWrite
    \/ \E t \in TaskIds : ScorerStartAlone(t)
    \/ \E t \in TaskIds : ScorerFetchEarned(t)
    \/ \E t \in TaskIds : ScorerFetchHistory(t)
    \/ \E t \in TaskIds : ScorerAward(t)

\* PR writes whose scorer runs do not overlap
SpecScorerSerial == InitScorerOnly /\ [][NextScorerSerial]_vars

NextScorerFaulty ==
    \/ \E u \in Users, pr_in \in PrInputs : CreatePr(u, pr_in)
    \/ \E u \in Users, id \in 1..MaxPrs, upd \in PrUpdates : UpdatePr(u, id, upd)
    \/ \E t \in TaskIds : ScorerFetchDefinitions(t)
    \/ \E t \in TaskIds : ScorerFetchEarned(t)
    \/ \E t \in TaskIds : ScorerFetchHistory(t)
    \/ \E t \in TaskIds : ScorerAward(t)
    \/ \E t \in TaskIds : ScorerFetchRaise(t)
    \/ \E t \in TaskIds : ScorerInsertRaise(t)

\* PR creations and updates whose scorer runs interleave and may fail at any
\* database call
SpecScorerFaulty == InitScorerOnly /\ [][NextScorerFaulty]_vars

\* ========================================================= scorer: claims
AllTasksDone == \A t \in TaskIds : tasks[t].pc = "done"

Queue(t) == {tasks[t].achievements_to_award[i] :
                 i \in 1..Len(tasks[t].achievements_to_award)}

\* some run of the user queued the achievement
Queued(u, a) == \E t \in TaskIds : tasks[t].user_id = u /\ a \in Queue(t)

\* C1: however the runs of check_and_award_achievements interleave, once
\* they have ended user_achievements holds exactly one row for every
\* (user, achievement) pair that was awarded (FIRST_PR_LOGGED included).
C1_OneRowPerPair ==
    AllTasksDone =>
        \A u \in Users, a \in AchievementIds :
            user_achievements[<<u, a>>] = IF Queued(u, a) THEN 1 ELSE 0

\* the step of run t that evaluates the rules and inserts the batch
Awards(t) == tasks[t].pc = "award" /\ tasks'[t].pc = "done"

\* C2: a run never queues an achievement that is in the earned set it
\* fetched and never queues one achievement twice; with runs that do not
\* overlap every (user, achievement) pair is recorded at most once.
C2_NeverDoubleAwards ==
    /\ [][\A t \in TaskIds :
            Awards(t) =>
                LET batch == tasks'[t].achievements_to_award
                IN  /\ \A i \in 1..Len(batch) :
                          batch[i] \notin tasks[t].earned_achievement_ids
                    /\ \A i, j \in 1..Len(batch) : batch[i] = batch[j] => i = j]_vars
    /\ [](\A u \in Users, a \in AchievementIds : user_achievements[<<u, a>>] <= 1)

\* two finished runs for official PRs of one user, OFFICIAL_RACER (id 2)
\* queued by the first only
C2_Witness ==
    /\ Len(tasks) = 2
    /\ AllTasksDone
    /\ tasks[1].user_id = tasks[2].user_id
    /\ tasks[1].pr_data.is_official /\ tasks[2].pr_data.is_official
    /\ 2 \in Queue(1)
    /\ 2 \in tasks[2].earned_achievement_ids
    /\ 2 \notin Queue(2)
    /\ user_achievements[<<tasks[1].user_id, 2>>] = 1

\* every PR write so far was a creation: one row and one scheduled run each
OnlyCreations ==
    /\ next_pr_id = Len(tasks) + 1
    /\ Cardinality(user_prs) = Len(tasks)

\* C27: if the catalog contains FIRST_PR_LOGGED then, however a user's PR
\* creations interleave with their scorer runs, once every scheduled run
\* has completed a user who has at least one PR has earned FIRST_PR_LOGGED.
C27_FirstPrLogged ==
    (/\ OnlyCreations
     /\ AllTasksDone
     /\ "FIRST_PR_LOGGED" \in DOMAIN AchievementsMap(achievements)) =>
        \A u \in Users :
            PrHistory(user_prs, u) # {} =>
                user_achievements[<<u, AchievementsMap(achievements)["FIRST_PR_LOGGED"]>>] >= 1

\* the runs that are scheduled before and after the step
ScheduledBefore == 1..Len(tasks)

\* C23: the scorer is scheduled only once the PR row is written and the
\* value the request returns is fixed (the run has not started then), and
\* no step of a run, failing or not, changes the PR table or that value:
\* the result and the stored row are the same whether the run succeeds,
\* fails or never runs.
C23_ScorerNeverAffectsWrite ==
    [][/\ Len(tasks') > Len(tasks) =>
              /\ Len(tasks') = Len(tasks) + 1
              /\ tasks'[Len(tasks')].pr_data \in user_prs'
              /\ tasks'[Len(tasks')].pc = "fetch_definitions"
              /\ \A t \in ScheduledBefore : tasks'[t] = tasks[t]
       /\ \A t \in ScheduledBefore :
              /\ tasks'[t].pr_data = tasks[t].pr_data
              /\ tasks'[t].pc # tasks[t].pc =>
                     /\ user_prs' = user_prs
                     /\ next_pr_id' = next_pr_id]_vars

\* one run failed and one completed; the rows both were scheduled with are
\* stored as they were returned
C23_Witness ==
    /\ Len(tasks) = 2
    /\ tasks[1].pc = "failed"
    /\ tasks[2].pc = "done"
    /\ tasks[1].pr_data \in user_prs
    /\ tasks[2].pr_data \in user_prs
    /\ tasks[2].achievements_to_award # <<>>

\* =============================================================== user goal
\* the columns of user_goals a request can set
GoalColumns == {"goal_race_name", "goal_race_date", "goal_distance", "goal_time"}

Pad2(n) == IF n < 10 THEN "0" \o ToString(n) ELSE ToString(n)

\* str(timedelta) of a goal time below one day: H:MM:SS
TimedeltaStr(seconds) ==
    ToString(seconds \div 3600) \o ":" \o Pad2((seconds % 3600) \div 60)
        \o ":" \o Pad2(seconds % 60)

\* goal_data.model_dump(exclude_unset=True) with goal_time and
\* goal_race_date turned into strings and user_id added
DataToSave(goal_data, user_id) ==
    [k \in DOMAIN goal_data \cup {"user_id"} |->
        IF k = "user_id" THEN user_id
        ELSE IF k = "goal_time" THEN TimedeltaStr(goal_data[k])
        ELSE IF k = "goal_race_date" THEN isoformat(goal_data[k])
        ELSE goal_data[k]]

\* .eq('user_id', str(user_id)) on user_goals
GoalRows(table, user_id) == {row \in table : row.user_id = user_id}

\* .insert(data_to_save): the columns that are not given are null
InsertGoal(table, id, data_to_save) ==
    table \cup {[k \in GoalColumns \cup {"id", "user_id"} |->
                    IF k = "id" THEN id
                    ELSE IF k \in DOMAIN data_to_save THEN data_to_save[k]
                    ELSE NONE]}

\* .update(data_to_save).eq('user_id', ...): the columns given are set in
\* every row of the user
UpdateGoals(table, user_id, data_to_save) ==
    {IF row.user_id = user_id
     THEN [k \in DOMAIN row |-> IF k \in DOMAIN data_to_save THEN data_to_save[k]
                                ELSE row[k]]
     ELSE row : row \in table}

\* create_or_update_user_goal, step 1: does a goal row of the user exist
GoalCheck(user_id, goal_data) ==
    /\ Len(calls) < MaxCalls
    /\ LET existing_goal == GoalRows(user_goals, user_id) # {}
       IN  calls' = Append(calls,
                           [op |-> "create_or_update_user_goal",
                            pc |-> IF existing_goal THEN "update" ELSE "insert",
                            user_id |-> user_id,
                            data_to_save |-> DataToSave(goal_data, user_id),
                            status_code |-> 0])
    /\ UNCHANGED <<user_goals, next_goal_row_id>>
    /\ UNCHANGED <<calendar_events, user_google_auth, oauth_states, next_oauth_state>>
    /\ UNCHANGED <<gen_vars, scorer_vars, store_vars>>

\* step 2a: update the existing goal; an update that matched no row ends in
\* status.HTTP_404, a name the status module does not have (500)
GoalUpdate(c) ==
    /\ calls[c].pc = "update"
    /\ user_goals' = UpdateGoals(user_goals, calls[c].user_id, calls[c].data_to_save)
    /\ calls' = [calls EXCEPT ![c].pc = "done",
                              ![c].status_code =
                                  IF GoalRows(user_goals, calls[c].user_id) = {}
                                  THEN 500 ELSE 200]
    /\ UNCHANGED next_goal_row_id
    /\ UNCHANGED <<calendar_events, user_google_auth, oauth_states, next_oauth_state>>
    /\ UNCHANGED <<gen_vars, scorer_vars, store_vars>>

\* step 2b: insert the new goal
GoalInsert(c) ==
    /\ calls[c].pc = "insert"
    /\ user_goals' = InsertGoal(user_goals, next_goal_row_id, calls[c].data_to_save)
    /\ next_goal_row_id' = next_goal_row_id + 1
    /\ calls' = [calls EXCEPT ![c].pc = "done", ![c].status_code = 200]
    /\ UNCHANGED <<calendar_events, user_google_auth, oauth_states, next_oauth_state>>
    /\ UNCHANGED <<gen_vars, scorer_vars, store_vars>>

\* what a goal request may carry (exclude_unset: only the fields set);
\* goal_time in seconds, goal_race_date as a date
GoalInputs ==
    {[goal_race_name |-> "CIM 2025", goal_race_date |-> FirstToday + 70],
     [goal_distance |-> "Marathon", goal_time |-> 11700],
     [goal_time |-> 5400]}

CallIds == 1..Len(calls)

NextGoal ==
    \/ \E u \in Users, goal_data \in GoalInputs : GoalCheck(u, goal_data)
    \/ \E c \in CallIds : GoalUpdate(c)
    \/ \E c \in CallIds : GoalInsert(c)

\* goal requests that interleave at every database call
InitGoalOnly ==
    /\ calls = <<>>
    /\ user_goals = {}
    /\ next_goal_row_id = 1
    /\ calendar_events = <<>>
    /\ user_google_auth = {}
    /\ oauth_states = {}
    /\ next_oauth_state = 1
    /\ GenIdle
    /\ ScorerIdle
    /\ StoreIdle

SpecGoal == InitGoalOnly /\ [][NextGoal]_vars

\* ========================================================= user goal: claims
\* C29: however create_or_update_user_goal requests of one user interleave,
\* user_goals holds at most one row for the user.
C29_OneGoalPerUser ==
    \A u \in Users : Cardinality(GoalRows(user_goals, u)) <= 1

\* ============================================================ Google OAuth
\* the goal and calendar parts of the state, which the OAuth flow leaves alone
OAuthFrame ==
    /\ UNCHANGED <<calendar_events, user_goals, next_goal_row_id>>
    /\ UNCHANGED <<gen_vars, scorer_vars, store_vars>>

\* secrets.token_urlsafe(32): a token that was not issued before
StateToken(n) == "state-" \o ToString(n)

\* google_login: store a fresh state for the caller (expires_at is set by
\* the table's default)
GoogleLogin(user_id) ==
    /\ next_oauth_state <= MaxOAuthStates
    /\ oauth_states' = oauth_states \cup
           {[state |-> StateToken(next_oauth_state), user_id |-> user_id,
             expired |-> FALSE]}
    /\ next_oauth_state' = next_oauth_state + 1
    /\ UNCHANGED <<calls, user_google_auth>>
    /\ OAuthFrame

\* now() passes the expires_at of a stored state
StateExpires(state) ==
    /\ \E row \in oauth_states :
          /\ row.state = state
          /\ ~row.expired
          /\ oauth_states' = (oauth_states \ {row}) \cup {[row EXCEPT !.expired = TRUE]}
    /\ UNCHANGED <<calls, user_google_auth, next_oauth_state>>
    /\ OAuthFrame

\* .eq("state", state) and .eq("state", state).gt("expires_at", "now()")
StateRows(table, state) == {row \in table : row.state = state}

UnexpiredStateRows(table, state) == {row \in StateRows(table, state) : ~row.expired}

\* a callback as a request in progress or answered
Callback(pc, state, code, user_id, status_code) ==
    [op |-> "google_callback", pc |-> pc, state |-> state, code |-> code,
     user_id |-> user_id, status_code |-> status_code, stored |-> FALSE]

\* google_callback, the state validation: the outcomes <<user_id_str,
\* status_code, oauth_states afterwards>>. An HTTPException(400) raised
\* inside the try block is caught by its "except Exception" clause and
\* replaced by 500, as is the failure of reading .data of None.
StateValidation(table, state) ==
    UNION {
        IF select_resp.raises THEN {<<NONE, 500, table>>}
        ELSE IF select_resp.data # None
        THEN {<<select_resp.data[1].user_id, 0, table>>}
        ELSE {IF check_expired_resp.raises THEN <<NONE, 500, table>>
              ELSE IF check_expired_resp.data # None
              THEN <<NONE, 500, table \ StateRows(table, state)>>
              ELSE <<NONE, 500, table>> :
                  check_expired_resp \in MaybeSingle(StateRows(table, state))} :
        select_resp \in MaybeSingle(UnexpiredStateRows(table, state))}

\* google_callback up to the state validation
CallbackValidate(state, code) ==
    /\ Len(calls) < MaxCalls
    /\ \E outcome \in StateValidation(oauth_states, state) :
          /\ calls' = Append(calls,
                             IF outcome[1] # NONE
                             THEN Callback("delete_state", state, code, outcome[1], 0)
                             ELSE Callback("done", state, code, NONE, outcome[2]))
          /\ oauth_states' = outcome[3]
    /\ UNCHANGED <<user_google_auth, next_oauth_state>>
    /\ OAuthFrame

\* google_callback, "Delete used state"
CallbackDeleteState(c) ==
    /\ calls[c].op = "google_callback"
    /\ calls[c].pc = "delete_state"
    /\ oauth_states' = oauth_states \ StateRows(oauth_states, calls[c].state)
    /\ calls' = [calls EXCEPT ![c].pc = "exchange"]
    /\ UNCHANGED <<user_google_auth, next_oauth_state>>
    /\ OAuthFrame

\* Google exchanges an authorization code once: the code of a callback
\* that got its tokens is spent
CodeSpent(code) ==
    \E c \in 1..Len(calls) :
        /\ calls[c].code = code
        /\ calls[c].pc = "done"
        /\ calls[c].status_code \in {307, 400}

\* gc_service.exchange_code_for_tokens: None when the exchange fails, else
\* <<encrypted_refresh_token>>, the token None when Google sent none
exchange_code_for_tokens(code) ==
    IF code = "denied" \/ CodeSpent(code) THEN None
    ELSE IF code = "no-refresh" THEN Some(NONE)
    ELSE Some("encrypted:" \o code)

\* .upsert({user_id, encrypted_google_refresh_token}, on_conflict="user_id")
UpsertGoogleAuth(table, user_id, token) ==
    {row \in table : row.user_id # user_id}
        \cup {[user_id |-> user_id, encrypted_google_refresh_token |-> token]}

\* google_callback from the token exchange on: the refresh token is stored
\* under the user id taken from the state, then the redirect
CallbackStoreToken(c) ==
    /\ calls[c].op = "google_callback"
    /\ calls[c].pc = "exchange"
    /\ LET tokens == exchange_code_for_tokens(calls[c].code)
       IN  IF tokens = None
           THEN /\ calls' = [calls EXCEPT ![c].pc = "done", ![c].status_code = 500]
                /\ UNCHANGED user_google_auth
           ELSE IF tokens[1] = NONE
           THEN /\ calls' = [calls EXCEPT ![c].pc = "done", ![c].status_code = 400]
                /\ UNCHANGED user_google_auth
           ELSE /\ user_google_auth' =
                       UpsertGoogleAuth(user_google_auth, calls[c].user_id, tokens[1])
                /\ calls' = [calls EXCEPT ![c].pc = "done", ![c].status_code = 307,
                                          ![c].stored = TRUE]
    /\ UNCHANGED <<oauth_states, next_oauth_state>>
    /\ OAuthFrame

\* the state tokens issued so far, and one that never was
IssuedStates == {StateToken(n) : n \in 1..(next_oauth_state - 1)}

CallbackStateParams == IssuedStates \cup {"forged-state"}

\* the code parameter: two that Google exchanges for tokens, one it
\* refuses, one it exchanges without a refresh token
Codes == {"code-1", "code-2", "denied", "no-refresh"}

NextOAuth ==
    \/ \E u \in Users : GoogleLogin(u)
    \/ \E s \in IssuedStates : StateExpires(s)
    \/ \E s \in CallbackStateParams, code \in Codes : CallbackValidate(s, code)
    \/ \E c \in CallIds : CallbackDeleteState(c)
    \/ \E c \in CallIds : CallbackStoreToken(c)

\* logins and callbacks that interleave at every database call
InitOAuthOnly ==
    /\ calls = <<>>
    /\ oauth_states = {}
    /\ next_oauth_state = 1
    /\ user_google_auth = {}
    /\ calendar_events = <<>>
    /\ user_goals = {}
    /\ next_goal_row_id = 1
    /\ GenIdle
    /\ ScorerIdle
    /\ StoreIdle

SpecOAuth == InitOAuthOnly /\ [][NextOAuth]_vars

\* ====================================================== Google OAuth: claims
\* the callbacks carrying the state that stored a refresh token
TokenStoringCallbacks(state) ==
    {c \in CallIds : calls[c].state = state /\ calls[c].stored}

\* the step validates the state of a callback and lets it proceed
Validated == Len(calls') = Len(calls) + 1 /\ calls'[Len(calls')].pc = "delete_state"

\* C28: a callback stores a refresh token only if its state matched a
\* stored, unexpired oauth_states record, it stores the token under the
\* user_id of that record, and each issued state authorizes at most one
\* token-storing callback, later and concurrent callbacks included.
C28_StateIsSingleUse ==
    /\ [][Validated =>
              \E row \in oauth_states :
                  /\ row.state = calls'[Len(calls')].state
                  /\ ~row.expired
                  /\ row.user_id = calls'[Len(calls')].user_id]_vars
    /\ [][user_google_auth' # user_google_auth =>
              \E c \in CallIds :
                  /\ calls[c].pc = "exchange"
                  /\ calls'[c].stored
                  /\ user_google_auth' =
                         UpsertGoogleAuth(user_google_auth, calls[c].user_id,
                                          "encrypted:" \o calls[c].code)]_vars
    /\ [](\A s \in IssuedStates : Cardinality(TokenStoringCallbacks(s)) <= 1)

\* ==================================================== Google Calendar sync
\* Python truthiness of an optional string
Truthy(v) == v \notin {NONE, ""}

\* the id Google gives the n-th event created in the calendar
EventId(n) == "evt-" \o ToString(n)

\* for week in plan.weeks: for day in week.days: the positions <<week, day>>
\* in the order of the loops
RECURSIVE PositionsFrom(_, _)
PositionsFrom(plan, k) ==
    IF k > Len(plan.weeks) THEN <<>>
    ELSE [i \in 1..Len(plan.weeks[k].days) |-> <<k, i>>] \o PositionsFrom(plan, k + 1)

LoopPositions(plan) == PositionsFrom(plan, 1)

\* sync, step 4: a day that has an event id or is a Rest day is skipped, as
\* is one whose date does not parse; create_calendar_event returns nothing
\* for the dates in failing, and the id of the created event otherwise
RECURSIVE CreateEvents(_, _, _, _)
CreateEvents(plan, todo, events, failing) ==
    IF todo = <<>> THEN [plan |-> plan, events |-> events]
    ELSE LET p == Head(todo)
             day == plan.weeks[p[1]].days[p[2]]
         IN  IF \/ Truthy(day.google_event_id)
                \/ day.workout_type = "Rest"
                \/ ~IsIsoDate(day.date)
                \/ day.date \in failing
             THEN CreateEvents(plan, Tail(todo), events, failing)
             ELSE CreateEvents(
                      [plan EXCEPT !.weeks[p[1]].days[p[2]].google_event_id =
                                       EventId(Len(events) + 1)],
                      Tail(todo),
                      Append(events, [date |-> day.date, deleted |-> FALSE]),
                      failing)

\* events().delete(eventId=...): the event is gone afterwards; an id the
\* calendar does not know counts as gone already
MarkDeleted(events, event_id) ==
    [i \in 1..Len(events) |->
        IF EventId(i) = event_id THEN [events[i] EXCEPT !.deleted = TRUE]
        ELSE events[i]]

\* unsync, step 4: the event of every day that has an event id is deleted
\* and the id cleared; delete_calendar_event fails for the dates in failing
\* and the id stays
RECURSIVE DeleteEvents(_, _, _, _)
DeleteEvents(plan, todo, events, failing) ==
    IF todo = <<>> THEN [plan |-> plan, events |-> events]
    ELSE LET p == Head(todo)
             day == plan.weeks[p[1]].days[p[2]]
         IN  IF ~Truthy(day.google_event_id) \/ day.date \in failing
             THEN DeleteEvents(plan, Tail(todo), events, failing)
             ELSE DeleteEvents(
                      [plan EXCEPT !.weeks[p[1]].days[p[2]].google_event_id = NONE],
                      Tail(todo),
                      MarkDeleted(events, day.google_event_id),
                      failing)

\* .eq("user_id", user_id) on user_google_auth
GoogleAuthRows(table, user_id) == {row \in table : row.user_id = user_id}

\* step 1 of sync and unsync found a refresh token
HasRefreshToken(token) ==
    /\ ~token.raises
    /\ token.data # None
    /\ Truthy(token.data[1].encrypted_google_refresh_token)

\* sync_plan_to_google_calendar up to its write: the response, the row id
\* and document of step 5 if the plan was updated, and the calendar. The
\* HTTPException(401) of step 1 is raised inside the try block and caught
\* by its "except Exception" clause (500).
SyncOutcome(token, result, events, failing) ==
    IF ~HasRefreshToken(token)
    THEN [response |-> StoreError(500, "Could not retrieve Google credentials."),
          write |-> None, events |-> events]
    ELSE IF result.raises
    THEN [response |-> StoreError(500, "Could not retrieve training plan for syncing."),
          write |-> None, events |-> events]
    ELSE IF result.data = None
    THEN [response |-> StoreError(404, "No saved training plan found for this race."),
          write |-> None, events |-> events]
    ELSE IF ~ValidDetailedTrainingPlan(result.data[1].generated_plan)
    THEN [response |-> StoreError(500, "Could not retrieve training plan for syncing."),
          write |-> None, events |-> events]
    ELSE LET plan == ParseDetailedTrainingPlan(result.data[1].generated_plan)
             synced == CreateEvents(plan, LoopPositions(plan), events, failing)
             plan_updated == synced.plan # plan
         IN  [response |->
                  StoreOk(200, [events_synced_count |-> Len(synced.events) - Len(events),
                                plan_updated_with_ids |-> plan_updated]),
              write |-> IF plan_updated
                        THEN Some([id |-> result.data[1].id,
                                   generated_plan |-> ModelDump(synced.plan)])
                        ELSE None,
              events |-> synced.events]

\* remove_plan_from_google_calendar up to its write; without a token or
\* without a plan there is nothing to delete (204)
UnsyncOutcome(token, result, events, failing) ==
    IF token.raises
    THEN [response |-> StoreError(500, "Could not retrieve Google credentials."),
          write |-> None, events |-> events]
    ELSE IF ~HasRefreshToken(token)
    THEN [response |-> StoreError(204, ""), write |-> None, events |-> events]
    ELSE IF result.raises
    THEN [response |-> StoreError(500, "Could not retrieve training plan for deletion."),
          write |-> None, events |-> events]
    ELSE IF result.data = None
    THEN [response |-> StoreError(204, ""), write |-> None, events |-> events]
    ELSE IF ~ValidDetailedTrainingPlan(result.data[1].generated_plan)
    THEN [response |-> StoreError(500, "Could not retrieve training plan for deletion."),
          write |-> None, events |-> events]
    ELSE LET plan == ParseDetailedTrainingPlan(result.data[1].generated_plan)
             removed == DeleteEvents(plan, LoopPositions(plan), events, failing)
             plan_updated == removed.plan # plan
         IN  [response |-> StoreError(204, ""),
              write |-> IF plan_updated
                        THEN Some([id |-> result.data[1].id,
                                   generated_plan |-> ModelDump(removed.plan)])
                        ELSE None,
              events |-> removed.events]

\* a request that reads the stored plan, changes its copy and writes the
\* whole document back: in progress (pc = "write") or answered ("done")
PlanCall(op, user_id, race_id, day_date, status, outcome) ==
    [op |-> op,
     pc |-> IF outcome.write = None THEN "done" ELSE "write",
     user_id |-> user_id, race_id |-> race_id, day_date |-> day_date,
     status |-> status, write |-> outcome.write, response |-> outcome.response]

\* the parts of the state the calendar and status requests leave alone
PlanCallFrame ==
    /\ UNCHANGED <<next_plan_row_id, plan_request, plan_response>>
    /\ UNCHANGED <<user_google_auth, oauth_states, next_oauth_state, user_goals,
                   next_goal_row_id>>
    /\ UNCHANGED <<gen_vars, scorer_vars>>

\* update_daily_workout_status, steps 1-3: read the plan, change the day
StatusUpdateRead(user_id, race_id, day_date, new_status) ==
    /\ Len(calls) < MaxCalls
    /\ \E result \in MaybeSingle(PlanRows(user_generated_plans, user_id, race_id)) :
          calls' = Append(calls,
                          PlanCall("update_day_status", user_id, race_id, day_date,
                                   new_status,
                                   StatusUpdateOutcome(result, day_date, new_status)))
    /\ UNCHANGED <<user_generated_plans, calendar_events>>
    /\ PlanCallFrame

\* update_daily_workout_status, step 4: write the whole document back
StatusUpdateWrite(c) ==
    /\ calls[c].op = "update_day_status"
    /\ calls[c].pc = "write"
    /\ user_generated_plans' = UpdateById(user_generated_plans, calls[c].write[1].id,
                                          calls[c].write[1].generated_plan)
    /\ calls' = [calls EXCEPT ![c].pc = "done"]
    /\ UNCHANGED calendar_events
    /\ PlanCallFrame

\* the dates the calendar API fails for during one request
Outages ==
    {{}, {isoformat(BodyPlanStart + 1)}, {isoformat(BodyPlanStart + i) : i \in 0..6}}

\* sync_plan_to_google_calendar, steps 1-4: read the token and the plan,
\* create the events
SyncRead(user_id, race_id) ==
    /\ Len(calls) < MaxCalls
    /\ \E token \in MaybeSingle(GoogleAuthRows(user_google_auth, user_id)),
          result \in MaybeSingle(PlanRows(user_generated_plans, user_id, race_id)),
          failing \in Outages :
          LET outcome == SyncOutcome(token, result, calendar_events, failing)
          IN  /\ calls' = Append(calls, PlanCall("sync", user_id, race_id, 0, "", outcome))
              /\ calendar_events' = outcome.events
    /\ UNCHANGED user_generated_plans
    /\ PlanCallFrame

\* sync_plan_to_google_calendar, step 5: save the plan with the event ids
SyncSave(c) ==
    /\ calls[c].op = "sync"
    /\ calls[c].pc = "write"
    /\ user_generated_plans' = UpdateById(user_generated_plans, calls[c].write[1].id,
                                          calls[c].write[1].generated_plan)
    /\ calls' = [calls EXCEPT ![c].pc = "done"]
    /\ UNCHANGED calendar_events
    /\ PlanCallFrame

\* remove_plan_from_google_calendar, steps 1-4: read the token and the
\* plan, delete the events
UnsyncRead(user_id, race_id) ==
    /\ Len(calls) < MaxCalls
    /\ \E token \in MaybeSingle(GoogleAuthRows(user_google_auth, user_id)),
          result \in MaybeSingle(PlanRows(user_generated_plans, user_id, race_id)),
          failing \in Outages :
          LET outcome == UnsyncOutcome(token, result, calendar_events, failing)
          IN  /\ calls' = Append(calls, PlanCall("unsync", user_id, race_id, 0, "", outcome))
              /\ calendar_events' = outcome.events
    /\ UNCHANGED user_generated_plans
    /\ PlanCallFrame

\* remove_plan_from_google_calendar, step 5: save the plan without the ids
UnsyncSave(c) ==
    /\ calls[c].op = "unsync"
    /\ calls[c].pc = "write"
    /\ user_generated_plans' = UpdateById(user_generated_plans, calls[c].write[1].id,
                                          calls[c].write[1].generated_plan)
    /\ calls' = [calls EXCEPT ![c].pc = "done"]
    /\ UNCHANGED calendar_events
    /\ PlanCallFrame

\* the user whose plan is synced, with the Google account connected
CalendarUser == "u1"

ConnectedAccount ==
    {[user_id |-> CalendarUser, encrypted_google_refresh_token |-> "encrypted:code-1"]}

\* a one-week plan as the generation endpoint returns it when the model
\* output carries keys of its own (a date, a status and a google_event_id)
GeneratedBodyWithOverrides(user_id) ==
    GeneratedResponse([kind |-> "json",
                       data |-> AiParsedData("ascending", <<OverridingDays>>)],
                      [name |-> "City Marathon", distance |-> "Marathon",
                       date |-> isoformat(BodyPlanStart + 9)],
                      1, BodyPlanStart, user_id, NoPreferences, None).body

\* the bodies of save and replace: two generated plans
CalendarBodies ==
    {PlanBody(CalendarUser, "A"), GeneratedBodyWithOverrides(CalendarUser)}

\* Monday (a Rest day) and Tuesday of the plan
CalendarDayDates == {isoformat(BodyPlanStart), isoformat(BodyPlanStart + 1)}

NextSyncStatus ==
    \/ \E r \in StoreRaceIds, d \in CalendarDayDates, st \in RequestedStatuses :
           StatusUpdateRead(CalendarUser, r, d, st)
    \/ \E c \in CallIds : StatusUpdateWrite(c)
    \/ \E r \in StoreRaceIds : SyncRead(CalendarUser, r)
    \/ \E c \in CallIds : SyncSave(c)

NextCalendar ==
    \/ \E r \in StoreRaceIds, b \in CalendarBodies : SaveGeneratedPlan(CalendarUser, r, b)
    \/ \E r \in StoreRaceIds, b \in CalendarBodies :
           UpdateSavedPlanStructure(CalendarUser, r, b)
    \/ \E r \in StoreRaceIds, d \in CalendarDayDates, st \in RequestedStatuses :
           StatusUpdateRead(CalendarUser, r, d, st)
    \/ \E c \in CallIds : StatusUpdateWrite(c)
    \/ \E r \in StoreRaceIds : SyncRead(CalendarUser, r)
    \/ \E c \in CallIds : SyncSave(c)
    \/ \E r \in StoreRaceIds : UnsyncRead(CalendarUser, r)
    \/ \E c \in CallIds : UnsyncSave(c)

\* nothing saved yet; the Google account connected or not
InitCalendarOnly ==
    /\ calls = <<>>
    /\ calendar_events = <<>>
    /\ user_google_auth \in {{}, ConnectedAccount}
    /\ oauth_states = {}
    /\ next_oauth_state = 1
    /\ user_goals = {}
    /\ next_goal_row_id = 1
    /\ GenIdle
    /\ ScorerIdle
    /\ StoreIdle

\* save, replace, status updates, sync and unsync that interleave at every
\* database call
SpecCalendar == InitCalendarOnly /\ [][NextCalendar]_vars

\* one saved plan, the Google account connected
InitSyncStatusOnly ==
    /\ calls = <<>>
    /\ calendar_events = <<>>
    /\ user_google_auth = ConnectedAccount
    /\ oauth_states = {}
    /\ next_oauth_state = 1
    /\ user_goals = {}
    /\ next_goal_row_id = 1
    /\ user_generated_plans =
           {PlanRow(1, CalendarUser, "r1", ModelDump(PlanBody(CalendarUser, "A")))}
    /\ next_plan_row_id = 2
    /\ plan_request = NoPlanRequest
    /\ plan_response = NoPlanResponse
    /\ GenIdle
    /\ ScorerIdle

\* status updates and syncs of one saved plan that interleave at every
\* database call
SpecSyncStatus == InitSyncStatusOnly /\ [][NextSyncStatus]_vars

\* ------------------------------------------------------- calendar: claims
\* the days of a stored document
StoredDays(row) ==
    {row.generated_plan.weeks[w].days[d] :
        w \in 1..Len(row.generated_plan.weeks), d \in 1..7}

\* sync created the event with this id, for this date
CreatedBySync(event_id, day_date) ==
    \E i \in 1..Len(calendar_events) :
        EventId(i) = event_id /\ calendar_events[i].date = day_date

\* C24: every day of a stored plan that has a google_event_id refers to an
\* event that sync created for that day, whatever sequence of save, replace,
\* status update, sync and unsync led to the stored plan
C24_EventIdsComeFromSync ==
    \A row \in user_generated_plans :
        ValidDetailedTrainingPlan(row.generated_plan) =>
            \A day \in StoredDays(row) :
                Truthy(day.google_event_id) =>
                    CreatedBySync(day.google_event_id, day.date)

\* the stored day of a date
StoredDayOf(day_date) ==
    {day \in UNION {StoredDays(row) : row \in user_generated_plans} :
        day.date = day_date}

\* two status updates of different days of one plan, both answered with 200
BothStatusUpdatesDone ==
    /\ Len(calls) = 2
    /\ \A c \in 1..2 :
          /\ calls[c].op = "update_day_status"
          /\ calls[c].pc = "done"
          /\ calls[c].response.status_code = 200
    /\ calls[1].day_date # calls[2].day_date

\* C25: two status updates of different days of the same plan both take
\* effect, however their database calls interleave
C25_BothStatusUpdatesTakeEffect ==
    BothStatusUpdatesDone =>
        \A c \in 1..2 :
            \A day \in StoredDayOf(calls[c].day_date) : day.status = calls[c].status

\* the events of a date
EventsOf(day_date) ==
    {i \in 1..Len(calendar_events) : calendar_events[i].date = day_date}

\* every event of this step was created for a stored day that is no Rest
\* day and has no event id
SyncSkips ==
    \A i \in (Len(calendar_events) + 1)..Len(calendar_events') :
        \E day \in StoredDayOf(calendar_events'[i].date) :
            day.workout_type # "Rest" /\ ~Truthy(day.google_event_id)

\* every event id of the stored plan is still there after this step
EventIdsKept ==
    \A row \in user_generated_plans :
      \A w \in 1..Len(row.generated_plan.weeks), d \in 1..7 :
        Truthy(row.generated_plan.weeks[w].days[d].google_event_id) =>
            \E after \in user_generated_plans' :
                /\ after.id = row.id
                /\ after.generated_plan.weeks[w].days[d].google_event_id =
                       row.generated_plan.weeks[w].days[d].google_event_id

\* at most one event was ever created for a day
OneEventPerDay ==
    \A i \in 1..Len(calendar_events) :
        Cardinality(EventsOf(calendar_events[i].date)) <= 1

\* C26: over any interleaving of syncs and status updates of one saved plan
\* at most one event is ever created per day, sync creates nothing for Rest
\* days and days that have an event id, and a stored event id is never lost
C26_SyncIsIdempotent ==
    /\ []OneEventPerDay
    /\ [][SyncSkips /\ EventIdsKept]_vars

====
